---- MODULE Spec2Model ----
(***************************************************************************)
(* A model of the Eisdrache code-generation layer (src/src/eisdrache.cpp). *)
(*                                                                         *)
(* Seven parts of the program are modelled, each with its own              *)
(* specification over the shared variables:                                *)
(*   SpecLocal  Local handles and their deferred writes ("futures"), with  *)
(*              the instructions the builder emits for them;               *)
(*   SpecTy     the type registry (addTy, the type getters, isEqual);      *)
(*   SpecArray  the member functions Array::Array generates, executed on   *)
(*              one array struct and a byte-addressed heap;                *)
(*   SpecOp     the builder calls typeCast, binaryOp, unaryOp,             *)
(*              getElementPtr, storeValue and Func::operator[], each       *)
(*              applied once to arguments drawn from bounded sets;         *)
(*   SpecCast   a signed integer taken through typeCast to another width   *)
(*              and back, the emitted conversions executed on its value;   *)
(*   SpecFunc   the function table, the current function and the block     *)
(*              the builder inserts into, with Func::addLocal;             *)
(*   SpecRw     declareLocal and loadLocal of src/src/rewrite.cpp.         *)
(***************************************************************************)
EXTENDS Integers, Sequences, FiniteSets, TLC

VARIABLES
    this,       \* the Local the operations are called on
    mem,        \* what the storage behind this Local (its v_ptr) holds
    locals,     \* the Locals that loads of this Local have added to Func::locals
    emitted,    \* the instructions the last operation appended to the block
    ret,        \* what the last operation was and what it returned
    given,      \* the future the caller registered last, with the arguments as passed
    fatal,      \* complain() was called: the process has exited
    types,      \* Eisdrache::types, the registry, in insertion order
    handed,     \* the (request, instance) pairs the getters and getPtrTo have returned so far
    tyRet,      \* the last registry request and the instance it returned
    fields,     \* the array struct: <<buffer, size, max, factor>>
    heap,       \* the allocations made by malloc: address -> [len, data, freed]
    elemBits,   \* elementTy->getBit() of the array's element type
    ext,        \* the calls to malloc / free / memcpy made by the last member function
    aret,       \* the last member function called, its arguments and its result
    made,       \* the calls since the array was built by constructor_size, while only
                \* set_at_index, resize and reading functions were called on it
    call,       \* the builder call tried: the function, its operands, operator and target type
    outcome,    \* what the call did: instructions emitted, exit, type of the Local returned
    ub,         \* a member function accessed memory outside a live allocation: undefined from there on
    cast,       \* an integer taken through typeCast to another width and back
    functions,  \* Eisdrache::functions: name -> the Func wrapper stored under it
    curParent,  \* Eisdrache::parent: the name whose entry of functions it points to
    insert,     \* the llvm::Function owning the block the builder inserts into
    blocks,     \* the llvm::Functions that have a basic block
    fret,       \* the last call on the function table or the builder, and where its results went
    futures,    \* rewrite.cpp: Eisdrache::futures, stack slot -> initial value
    stack,      \* rewrite.cpp: what each stack slot holds
    rwret       \* rewrite.cpp: the last facade call, what it emitted and what its load read

localVars == <<this, mem, locals, emitted, ret, given, fatal>>
tyVars    == <<types, handed, tyRet>>
arrVars   == <<fields, heap, elemBits, ext, aret, made, ub>>
opVars    == <<call, outcome>>
castVars  == <<cast>>
funcVars  == <<functions, curParent, insert, blocks, fret>>
rwVars    == <<futures, stack, rwret>>
vars      == <<this, mem, locals, emitted, ret, given, fatal, types, handed, tyRet,
               fields, heap, elemBits, ext, aret, made, ub, call, outcome,
               cast, functions, curParent, insert, blocks, fret, futures, stack, rwret>>

\* the parts of the state a specification does not use stay as constructed:
\* no cast tried, Eisdrache::Eisdrache's empty tables and null parent, a
\* builder without insertion point
CastIdle ==
    cast = [n |-> 0, m |-> 0, alloca |-> FALSE, orig |-> 0, ty |-> << >>, val |-> 0,
            insts |-> << >>, casts |-> 0]
FuncIdle ==
    /\ functions = << >> /\ curParent = "none" /\ insert = 0 /\ blocks = {}
    /\ fret = [op |-> "none", body |-> 0, table |-> 0, key |-> << >>, declared |-> 0,
               latest |-> "none", entry |-> FALSE]
RwIdle ==
    /\ futures = << >> /\ stack = << >>
    /\ rwret = [op |-> "none", slot |-> 0, insts |-> << >>, read |-> 0]

(***************************************************************************)
(* LOCALS AND FUTURES                                                      *)
(***************************************************************************)

\* Locals that loads may add to the function's table
MaxLocals == 3

\* llvm::Value's the caller can hand to the builder. k is the kind of the
\* value: "null" (nullptr), "const" (a Constant), "func" (a Function, which
\* is a Value too), "result" (the result of a call of function n), "prior"
\* (whatever a piece of storage held before anything was stored to it).
Val(k, n) == [k |-> k, n |-> n]
Null      == Val("null", 0)
Prior     == Val("prior", 0)
ConstVals == {Val("const", 1), Val("const", 2)}
VoidFuncs == {Val("func", 1)}        \* getReturnType()->isVoidTy()
ValueFuncs == {Val("func", 2)}
FuncVals  == VoidFuncs \cup ValueFuncs
FutureVals == ConstVals \cup FuncVals
ArgLists  == {<< >>, <<Val("const", 1)>>, <<Val("const", 2)>>}
ResultOf(f) == Val("result", f.n)

\* The instructions the model records; ptr is TRUE for an access to the
\* storage of this Local.
CallInst(f, args)  == [op |-> "call",  fn |-> f,    args |-> args,  val |-> Null, ptr |-> FALSE]
StoreInst(v)       == [op |-> "store", fn |-> Null, args |-> << >>, val |-> v,    ptr |-> TRUE]
LoadInst           == [op |-> "load",  fn |-> Null, args |-> << >>, val |-> Null, ptr |-> TRUE]

\* A Local: the pointer depth of its Ty (0: not a pointer type), whether
\* v_ptr is an AllocaInst, the pending future and the future's arguments.
MkLocal(depth, alloca, future, args) ==
    [depth |-> depth, alloca |-> alloca, future |-> future, future_args |-> args]

\* What an operation of a Local works on: the Local, its storage, and the
\* instructions emitted so far by the operation.
St(loc, m, I) == [loc |-> loc, mem |-> m, ir |-> I]

\* Local::setFuture
setFuture(loc, v) == [loc EXCEPT !.future = v]

\* Local::setFutureArgs
setFutureArgs(loc, args) == [loc EXCEPT !.future_args = args]

\* invokeFuture with a slip: the void branch returns without clearing the future
invokeFuture_keepsVoid(st) ==
    LET loc == st.loc
        done == [loc EXCEPT !.future = Null, !.future_args = << >>]
    IN
    IF loc.future = Null THEN st
    ELSE IF loc.future.k = "func" /\ loc.future \in VoidFuncs
         THEN St(loc, st.mem, Append(st.ir, CallInst(loc.future, loc.future_args)))
         ELSE LET ir1 == IF loc.future.k = "func"
                         THEN Append(st.ir, CallInst(loc.future, loc.future_args))
                         ELSE st.ir
                  fut == IF loc.future.k = "func" THEN ResultOf(loc.future) ELSE loc.future
              IN St(done, fut, Append(ir1, StoreInst(fut)))

\* invokeFuture with a slip: a value-returning callable is not called, the
\* callable itself is stored
invokeFuture_noCall(st) ==
    LET loc == st.loc
        done == [loc EXCEPT !.future = Null, !.future_args = << >>]
    IN
    IF loc.future = Null THEN st
    ELSE IF loc.future.k = "func" /\ loc.future \in VoidFuncs
         THEN St(done, st.mem, Append(st.ir, CallInst(loc.future, loc.future_args)))
         ELSE St(done, loc.future, Append(st.ir, StoreInst(loc.future)))

\* Local::invokeFuture
invokeFuture(st) ==
    LET loc == st.loc
        done == [loc EXCEPT !.future = Null, !.future_args = << >>]
    IN
    IF loc.future = Null THEN st
    ELSE IF loc.future.k = "func" /\ loc.future \in VoidFuncs
         THEN St(done, st.mem, Append(st.ir, CallInst(loc.future, loc.future_args)))
         ELSE LET ir1 == IF loc.future.k = "func"
                         THEN Append(st.ir, CallInst(loc.future, loc.future_args))
                         ELSE st.ir
                  fut == IF loc.future.k = "func" THEN ResultOf(loc.future) ELSE loc.future
              IN St(done, fut, Append(ir1, StoreInst(fut)))

\* Local::operator=: v_ptr, type and future are copied (eisdrache is the
\* same for all); future_args is left as it was
LocalAssign(dst, copy) ==
    [dst EXCEPT !.depth = copy.depth, !.alloca = copy.alloca, !.future = copy.future]

\* the Local that locals[symbol] makes for a key not in the table yet
DefaultLocal == MkLocal(0, FALSE, Null, << >>)

\* Func::addLocal(local) under a new key: the Local in the table, which
\* is the one handed back to the caller
Registered(local) == LocalAssign(DefaultLocal, local)

\* Local::isAlloca
isAlloca(loc) == loc.alloca

\* Ty::isPtrTy of the Local's type
isPtrTy(loc) == loc.depth > 0

\* loadValue with a slip: any Local of pointer type is loaded, forced or not
loadValue_anyPointer(st, force) ==
    LET loc == st.loc IN
    IF ~isPtrTy(loc)
    THEN [st |-> st, new |-> FALSE, seen |-> Null, local |-> loc]
    ELSE LET st1 == IF isAlloca(loc) THEN invokeFuture(st) ELSE st
         IN [st |-> St(st1.loc, st1.mem, Append(st1.ir, LoadInst)),
             new |-> TRUE, seen |-> st1.mem,
             local |-> MkLocal(loc.depth - 1, FALSE, Null, << >>)]

\* Local::loadValue: new is TRUE when a load was emitted and a new Local made
\* for it, FALSE when the Local itself is returned; local is the Local
\* returned and seen what the load reads.
loadValue(st, force) ==
    LET loc == st.loc IN
    IF (~force /\ ~isAlloca(loc)) \/ ~isPtrTy(loc)
    THEN [st |-> st, new |-> FALSE, seen |-> Null, local |-> loc]
    ELSE LET st1 == IF isAlloca(loc) THEN invokeFuture(st) ELSE st
         IN [st |-> St(st1.loc, st1.mem, Append(st1.ir, LoadInst)),
             new |-> TRUE, seen |-> st1.mem,
             local |-> MkLocal(loc.depth - 1, FALSE, Null, << >>)]

\* What an operation returns to the caller: op names the operation; res is 0
\* when the Local itself (or a pointer to its storage) is returned and the
\* index in locals of the Local returned otherwise; read tells whether the
\* storage of the Local was read (a pointer to it handed out, or a load from
\* it emitted) and observed what that read finds there.
Ret(op, res, read, obs) == [op |-> op, res |-> res, read |-> read, observed |-> obs]
Given(v, args) == [fut |-> v, args |-> args]

\* Eisdrache::createFuture(Local &, Value *)
createFutureValue(v) ==
    /\ ~fatal
    /\ this' = setFuture(this, v)
    /\ given' = Given(v, << >>)
    /\ emitted' = << >>
    /\ ret' = Ret("createFuture", 0, FALSE, Null)
    /\ UNCHANGED <<mem, locals, fatal, tyVars, arrVars, opVars, castVars, funcVars, rwVars>>

\* Eisdrache::createFuture(Local &, Func &, ValueVec)
createFutureFunc(f, args) ==
    /\ ~fatal
    /\ this' = setFutureArgs(setFuture(this, f), args)
    /\ given' = Given(f, args)
    /\ emitted' = << >>
    /\ ret' = Ret("createFuture", 0, FALSE, Null)
    /\ UNCHANGED <<mem, locals, fatal, tyVars, arrVars, opVars, castVars, funcVars, rwVars>>

\* a call of Local::invokeFuture by itself
InvokeFuture ==
    /\ ~fatal
    /\ LET st == invokeFuture(St(this, mem, << >>)) IN
        /\ this' = st.loc
        /\ mem' = st.mem
        /\ emitted' = st.ir
        /\ ret' = Ret("invokeFuture", 0, FALSE, Null)
    /\ UNCHANGED <<locals, given, fatal, tyVars, arrVars, opVars, castVars, funcVars, rwVars>>

\* Local::getValuePtr
getValuePtr ==
    /\ ~fatal
    /\ LET st == invokeFuture(St(this, mem, << >>)) IN
        /\ this' = st.loc
        /\ mem' = st.mem
        /\ emitted' = st.ir
        /\ ret' = Ret("getValuePtr", 0, TRUE, st.mem)
    /\ UNCHANGED <<locals, given, fatal, tyVars, arrVars, opVars, castVars, funcVars, rwVars>>

\* Local::getAllocaPtr, which is Local::operator*
getAllocaPtr ==
    /\ ~fatal
    /\ LET st == invokeFuture(St(this, mem, << >>)) IN
        /\ this' = st.loc
        /\ mem' = st.mem
        /\ emitted' = st.ir
        /\ fatal' = ~isAlloca(st.loc)
        /\ ret' = IF isAlloca(st.loc)
                  THEN Ret("getAllocaPtr", 0, TRUE, st.mem)
                  ELSE Ret("getAllocaPtr", 0, FALSE, Null)
    /\ UNCHANGED <<locals, given, tyVars, arrVars, opVars, castVars, funcVars, rwVars>>

\* Local::loadValue(force, name); the Local of the load goes through
\* Func::addLocal into the function's table
LoadValue(force) ==
    /\ ~fatal
    /\ LET r == loadValue(St(this, mem, << >>), force) IN
        /\ r.new => Len(locals) < MaxLocals
        /\ this' = r.st.loc
        /\ mem' = r.st.mem
        /\ emitted' = r.st.ir
        /\ locals' = IF r.new THEN Append(locals, r.local) ELSE locals
        /\ ret' = Ret("loadValue", IF r.new THEN Len(locals') ELSE 0, r.new, r.seen)
    /\ UNCHANGED <<given, fatal, tyVars, arrVars, opVars, castVars, funcVars, rwVars>>

\* The Local given to storeValue as its value: what v_ptr is (a constant, or
\* the stack slot of another Local) and the future pending on it.
ValueLocal(ptr, future) == [ptr |-> ptr, future |-> future]
StoredLocals ==
    {ValueLocal(Val("const", 1), Null), ValueLocal(Val("alloca", 1), Null),
     ValueLocal(Val("alloca", 1), Val("const", 2))}

\* a store into the storage of another Local
StoreElsewhere(v) == [op |-> "store", fn |-> Null, args |-> << >>, val |-> v, ptr |-> FALSE]

\* value.getValuePtr() of storeValue's value: what its future emits
ValuePtrInsts(value) ==
    IF value.future = Null THEN << >> ELSE <<StoreElsewhere(value.future)>>

\* storeValue with a slip: the pointer of the Local is taken without
\* invoking its future
storeValueOn_keepsFuture(st, value, lfirst) ==
    St(st.loc, value.ptr, ValuePtrInsts(value) \o <<StoreInst(value.ptr)>>)

\* Eisdrache::storeValue(local, value) past its type check: the two
\* getValuePtr() calls, in either order, then the store
storeValueOn(st, value, lfirst) ==
    LET own == invokeFuture(St(st.loc, st.mem, << >>))
        both == IF lfirst THEN own.ir \o ValuePtrInsts(value)
                          ELSE ValuePtrInsts(value) \o own.ir
    IN St(own.loc, value.ptr, Append(both, StoreInst(value.ptr)))

\* Eisdrache::storeValue(Local &local, Local &value), local being this Local
StoreValueInto(value, lfirst) ==
    /\ ~fatal
    /\ IF ~isPtrTy(this)
       THEN /\ fatal' = TRUE
            /\ emitted' = << >>
            /\ UNCHANGED <<this, mem>>
       ELSE LET st == storeValueOn(St(this, mem, << >>), value, lfirst) IN
            /\ this' = st.loc
            /\ mem' = st.mem
            /\ emitted' = st.ir
            /\ UNCHANGED fatal
    /\ ret' = Ret("storeValue", 0, FALSE, Null)
    /\ UNCHANGED <<locals, given, tyVars, arrVars, opVars, castVars, funcVars, rwVars>>

\* declareLocal's (value, future_args): arguments come with a callable
DeclFutures ==
    {<<v, << >> >> : v \in ConstVals \cup {Null}} \cup (FuncVals \X ArgLists)

\* The Locals handed to Func::addLocal: made by
\* Eisdrache::declareLocal(type, name, value, future_args), an alloca of a
\* type of pointer depth d with the future given; by Func::call, the
\* result of a call (no alloca), of the callee's return type; by
\* Struct::allocate, an alloca with the struct as its type.
NewLocals ==
    {MkLocal(d + 1, TRUE, fa[1], fa[2]) : d \in 0..1, fa \in DeclFutures}
    \cup {MkLocal(d, FALSE, Null, << >>) : d \in 0..2}
    \cup {MkLocal(0, TRUE, Null, << >>)}

\* this is the Local addLocal put into the table; given is the future as
\* the caller passed it
LocalInit ==
    /\ \E l \in NewLocals :
          /\ this = Registered(l)
          /\ given = Given(l.future, l.future_args)
    /\ mem = Prior
    /\ locals = << >>
    /\ emitted = << >>
    /\ ret = Ret("none", 0, FALSE, Null)
    /\ fatal = FALSE
    /\ types = << >> /\ handed = {} /\ tyRet = << >>
    /\ fields = <<0, 0, 0, 0>> /\ heap = << >> /\ elemBits = 0
    /\ ext = << >> /\ aret = [fn |-> "none", arg |-> 0, val |-> 0, res |-> 0]
    /\ made = [n |-> -1, elems |-> << >>, resized |-> -1] /\ ub = FALSE
    /\ call = [fn |-> "none", op |-> "none", lhs |-> << >>, rhs |-> << >>, to |-> << >>,
               index |-> 0, lfirst |-> TRUE, symbol |-> ""]
    /\ outcome = [done |-> FALSE, insts |-> << >>, exited |-> FALSE, ty |-> << >>, added |-> 0]
    /\ CastIdle /\ FuncIdle /\ RwIdle

NextLocal ==
    \/ \E v \in FutureVals : createFutureValue(v)
    \/ \E f \in FuncVals, a \in ArgLists : createFutureFunc(f, a)
    \/ InvokeFuture
    \/ getValuePtr
    \/ getAllocaPtr
    \/ \E force \in BOOLEAN : LoadValue(force)
    \/ \E value \in StoredLocals, lfirst \in BOOLEAN : StoreValueInto(value, lfirst)

SpecLocal == LocalInit /\ [][NextLocal]_vars

(***************************************************************************)
(* CLAIMS ABOUT LOCALS AND FUTURES (checked under SpecLocal)               *)
(***************************************************************************)

\* the operations that materialize a pending future by the code's own account
Materializing == {"invokeFuture", "getValuePtr", "getAllocaPtr", "loadValue"}

\* the calls and stores among the instructions I
RECURSIVE CallsAndStores(_)
CallsAndStores(I) ==
    IF I = << >> THEN << >>
    ELSE IF Head(I).op \in {"call", "store"}
         THEN <<Head(I)>> \o CallsAndStores(Tail(I))
         ELSE CallsAndStores(Tail(I))

\* what materializing the future (v, args) emits, by the three cases of
\* the specification
Materialization(v, args) ==
    IF v \in VoidFuncs THEN <<CallInst(v, args)>>
    ELSE IF v \in ValueFuncs THEN <<CallInst(v, args), StoreInst(ResultOf(v))>>
    ELSE <<StoreInst(v)>>

\* what the storage holds once the future v is materialized
Written(v, before) ==
    IF v \in VoidFuncs THEN before
    ELSE IF v \in ValueFuncs THEN ResultOf(v)
    ELSE v

\* C1: for a Local with a pending future, every read (getValuePtr,
\* getAllocaPtr / operator*, and every load that loadValue emits, forced or
\* not) materializes the future first: after the read no future is pending
\* and the read finds what the future wrote, not the prior contents.
C1_ReadMaterializesFuture ==
    [][(this.future # Null /\ ret'.read)
        => /\ this'.future = Null
           /\ ret'.observed = Written(this.future, mem)]_vars

\* C2: a registered future is materialized at most once: after invokeFuture
\* or a read that triggers it no future is pending; an operation on a Local
\* with no pending future emits no call and no store; and invokeFuture with
\* nothing pending emits nothing and changes nothing.
C2_MaterializedOnce ==
    [][/\ (ret'.op \in {"invokeFuture", "getValuePtr", "getAllocaPtr"}
            \/ (ret'.op = "loadValue" /\ ret'.read /\ isAlloca(this)))
          => this'.future = Null
       /\ (this.future = Null /\ ret'.op \in Materializing)
          => CallsAndStores(emitted') = << >> /\ mem' = mem
       /\ (this.future = Null /\ ret'.op = "invokeFuture")
          => emitted' = << >> /\ this' = this /\ locals' = locals]_vars

\* a read found nothing pending after an earlier materialization, and
\* emitted nothing
C2_Witness ==
    /\ ret.op = "getValuePtr"
    /\ emitted = << >>
    /\ mem # Prior
    /\ this.future = Null

\* C3: invokeFuture on a pending future emits exactly: one call and no store
\* for a void-returning callable; one call and then one store of the call's
\* result into the Local's storage for a value-returning callable; one store
\* of the value into the Local's storage for a plain value.
C3_InvokeFutureCases ==
    [][(ret'.op = "invokeFuture" /\ this.future # Null)
        => /\ emitted' = Materialization(this.future, this.future_args)
           /\ mem' = Written(this.future, mem)]_vars

\* invokeFuture has run on a value-returning callable: a call, then a store
C3_Witness ==
    /\ ret.op = "invokeFuture"
    /\ Len(emitted) = 2
    /\ emitted[1].op = "call" /\ emitted[2].op = "store"
    /\ mem \in {ResultOf(f) : f \in ValueFuncs}

\* C4: a Local has at most one pending future: whatever was registered
\* before, the calls and stores a materialization emits are those of the
\* future registered last, with the arguments passed with it (none, when a
\* value was registered) - nothing of an earlier future is used.
C4_OnlyLastFutureUsed ==
    [][(ret'.op \in Materializing /\ CallsAndStores(emitted') # << >>)
        => CallsAndStores(emitted') = Materialization(given.fut, given.args)]_vars

\* the accesses to the storage of this Local among the instructions I
OwnStores(I) == SelectSeq(I, LAMBDA i : i.op = "store" /\ i.ptr)
Loads(I)     == SelectSeq(I, LAMBDA i : i.op = "load")

\* C22: storeValue(dest, value) on a pointer-typed dest writes value's
\* value pointer into dest's storage at once, as the last write: a future
\* pending on dest before the call is not pending after it, and a read that
\* follows the call finds the value stored, without another write.
C22_StoreIsLastWrite ==
    [][/\ \A value \in StoredLocals, lfirst \in BOOLEAN :
            (StoreValueInto(value, lfirst) /\ isPtrTy(this))
                => /\ ~fatal'
                   /\ this'.future = Null
                   /\ mem' = value.ptr
                   /\ emitted'[Len(emitted')] = StoreInst(value.ptr)
       /\ (ret.op = "storeValue" /\ ~fatal /\ ret'.read)
            => /\ ret'.observed = mem
               /\ OwnStores(emitted') = << >>]_vars

\* a Local declared with a future was stored into, then read: the read
\* found the value stored
C22_Witness ==
    /\ ret.op = "loadValue" /\ ret.read
    /\ ret.observed = Val("const", 1)
    /\ given.fut = Val("const", 2)
    /\ emitted = <<LoadInst>>

\* C23: loadValue(force, name) emits exactly one load and returns a new
\* value-like Local of type T when the Local's type is Pointer<T> and it is
\* alloca-like or force is set; otherwise it emits nothing and returns the
\* same Local.
C23_LoadValueCases ==
    [][\A force \in BOOLEAN :
         LoadValue(force)
            => IF isPtrTy(this) /\ (isAlloca(this) \/ force)
               THEN /\ Len(Loads(emitted')) = 1
                    /\ Len(locals') = Len(locals) + 1
                    /\ ret'.res = Len(locals')
                    /\ locals'[ret'.res] = MkLocal(this.depth - 1, FALSE, Null, << >>)
               ELSE /\ emitted' = << >>
                    /\ ret'.res = 0
                    /\ this' = this /\ mem' = mem /\ locals' = locals]_vars

\* a value-like Local of pointer type was loaded without force: nothing
\* was emitted, no Local added
C23_Witness ==
    /\ ret.op = "loadValue" /\ ret.res = 0
    /\ ~isAlloca(this) /\ isPtrTy(this)
    /\ emitted = << >> /\ locals = << >>

\* C27: a Local made by declareLocal(type, name, callable, args) keeps its
\* future through addLocal: the first operation that materializes it calls
\* the callable with the arguments given.
C27_DeclaredFutureKeepsArgs ==
    [][(/\ ret.op = "none" /\ isAlloca(this) /\ given.fut \in FuncVals
        /\ ret'.op \in Materializing)
        => /\ emitted' # << >>
           /\ emitted'[1] = CallInst(given.fut, given.args)]_vars

(***************************************************************************)
(* THE TYPE REGISTRY                                                       *)
(***************************************************************************)

MaxTypes    == 4    \* entries of the registry
MaxPtrDepth == 2    \* pointer levels Ty::getPtrTo is asked to stack

\* bit widths the getters are asked for
Bits == {32}
\* StructType's declared, alias names
StructIds  == {1}
AliasNames == {1}

\* A type is the sequence of its layers, outermost first: PtrTy and AliasTy
\* wrap the type that follows, the other kinds end the sequence. name is the
\* alias of an AliasTy and the llvm::StructType of a Struct.
Layer(kind, bit, sgn, name) == [kind |-> kind, bit |-> bit, sgn |-> sgn, name |-> name]
VoidT         == <<Layer("void", 0, FALSE, 0)>>
IntT(bit, s)  == <<Layer("int", bit, s, 0)>>
FloatT(bit)   == <<Layer("float", bit, FALSE, 0)>>
StructT(id)   == <<Layer("struct", 0, FALSE, id)>>
PtrT(pointee) == <<Layer("ptr", 0, FALSE, 0)>> \o pointee
AliasT(a, ty) == <<Layer("alias", 0, FALSE, a)>> \o ty

\* Ty::kind
kind(ty) == Head(ty).kind

\* AliasTy / VoidTy / PtrTy / IntTy / FloatTy / Struct ::isEqual(comp), by the
\* kind of the type it is called on
RECURSIVE isEqual(_, _)
isEqual(this_, comp) ==
    CASE kind(this_) = "alias"  -> isEqual(Tail(this_), comp)
      [] kind(this_) = "void"   -> kind(comp) = "void"
      [] kind(this_) = "ptr"    -> kind(comp) = "ptr" /\ isEqual(Tail(this_), Tail(comp))
      [] kind(this_) = "int"    -> /\ kind(comp) = "int"
                                   /\ Head(this_).bit = Head(comp).bit
                                   /\ Head(this_).sgn = Head(comp).sgn
      [] kind(this_) = "float"  -> kind(comp) = "float" /\ Head(this_).bit = Head(comp).bit
      [] kind(this_) = "struct" -> kind(comp) = "struct" /\ Head(this_).name = Head(comp).name

\* the result of a registry request: the registry after it and the index of
\* the instance returned
Interned(T, i) == [types |-> T, idx |-> i]

\* the first entry of T that says it is equal to ty, 0 if none does
FirstEqual(T, ty) ==
    LET hits == {i \in DOMAIN T : isEqual(T[i], ty)} IN
    IF hits = {} THEN 0 ELSE CHOOSE i \in hits : \A j \in hits : i <= j

\* Eisdrache::addTy
addTy(T, ty) ==
    IF FirstEqual(T, ty) # 0
    THEN Interned(T, FirstEqual(T, ty))
    ELSE Interned(Append(T, ty), Len(T) + 1)

\* a PtrTy made over the instance a request returned, and interned
PtrOver(r) == addTy(r.types, PtrT(r.types[r.idx]))

\* the type getters of the Builder Facade
getVoidTy(T)              == addTy(T, VoidT)
getBoolTy(T)              == addTy(T, IntT(1, FALSE))
getSizeTy(T)              == addTy(T, IntT(64, FALSE))
getSignedTy(T, bit)       == addTy(T, IntT(bit, TRUE))
getSignedPtrTy(T, bit)    == PtrOver(getSignedTy(T, bit))
getSignedPtrPtrTy(T, bit) == PtrOver(getSignedPtrTy(T, bit))
getUnsignedTy(T, bit)       == addTy(T, IntT(bit, FALSE))
getUnsignedPtrTy(T, bit)    == PtrOver(getUnsignedTy(T, bit))
getUnsignedPtrPtrTy(T, bit) == PtrOver(getUnsignedPtrTy(T, bit))
getFloatTy(T, bit)       == addTy(T, FloatT(bit))
getFloatPtrTy(T, bit)    == PtrOver(getFloatTy(T, bit))
getFloatPtrPtrTy(T, bit) == PtrOver(getFloatPtrTy(T, bit))

\* Ty::getPtrTo, called on the type object ty
getPtrTo(T, ty) == addTy(T, PtrT(ty))

\* A request: the getter called and its argument.
Req(name, arg) == [name |-> name, arg |-> arg]
GetterRequests ==
    {Req(n, 0) : n \in {"getVoidTy", "getBoolTy", "getSizeTy"}}
    \cup {Req(n, b) : n \in {"getSignedTy", "getSignedPtrTy", "getSignedPtrPtrTy",
                             "getUnsignedTy", "getUnsignedPtrTy", "getUnsignedPtrPtrTy",
                             "getFloatTy", "getFloatPtrTy", "getFloatPtrPtrTy"},
                      b \in Bits}

Getter(T, req) ==
    CASE req.name = "getVoidTy"           -> getVoidTy(T)
      [] req.name = "getBoolTy"           -> getBoolTy(T)
      [] req.name = "getSizeTy"           -> getSizeTy(T)
      [] req.name = "getSignedTy"         -> getSignedTy(T, req.arg)
      [] req.name = "getSignedPtrTy"      -> getSignedPtrTy(T, req.arg)
      [] req.name = "getSignedPtrPtrTy"   -> getSignedPtrPtrTy(T, req.arg)
      [] req.name = "getUnsignedTy"       -> getUnsignedTy(T, req.arg)
      [] req.name = "getUnsignedPtrTy"    -> getUnsignedPtrTy(T, req.arg)
      [] req.name = "getUnsignedPtrPtrTy" -> getUnsignedPtrPtrTy(T, req.arg)
      [] req.name = "getFloatTy"          -> getFloatTy(T, req.arg)
      [] req.name = "getFloatPtrTy"       -> getFloatPtrTy(T, req.arg)
      [] req.name = "getFloatPtrPtrTy"    -> getFloatPtrPtrTy(T, req.arg)

\* the pointer levels at the top of a type
RECURSIVE PtrDepth(_)
PtrDepth(ty) == IF kind(ty) = "ptr" THEN 1 + PtrDepth(Tail(ty)) ELSE 0

\* what a request leaves behind: the registry, the instance handed out,
\* the candidate the request interned
Answer(req, cand, r) ==
    /\ types' = r.types
    /\ tyRet' = <<[req |-> req, cand |-> cand, idx |-> r.idx]>>
    /\ handed' = IF req.name = "addTy" THEN handed
                  ELSE handed \cup {[req |-> req, idx |-> r.idx]}
    /\ UNCHANGED <<localVars, arrVars, opVars, castVars, funcVars, rwVars>>

\* a call of one of the Builder Facade's type getters
GetTy(req) ==
    /\ Len(Getter(types, req).types) <= MaxTypes
    /\ LET r == Getter(types, req) IN Answer(req, r.types[r.idx], r)

\* Ty::getPtrTo called on the registry instance i
GetPtrTo(i) ==
    /\ PtrDepth(types[i]) < MaxPtrDepth
    /\ Len(getPtrTo(types, types[i]).types) <= MaxTypes
    /\ Answer(Req("getPtrTo", i), PtrT(types[i]), getPtrTo(types, types[i]))

\* Ty::getPtrTo called on a Struct (Struct::createMemberFunc does so for
\* the type of "this"); a Struct is no entry of the registry
StructGetPtrTo(id) ==
    /\ Len(getPtrTo(types, StructT(id)).types) <= MaxTypes
    /\ Answer(Req("Struct::getPtrTo", id), PtrT(StructT(id)), getPtrTo(types, StructT(id)))

\* Eisdrache::addTy called with an AliasTy made over the registry instance i
AddAlias(a, i) ==
    /\ Len(addTy(types, AliasT(a, types[i])).types) <= MaxTypes
    /\ Answer(Req("addTy", 0), AliasT(a, types[i]), addTy(types, AliasT(a, types[i])))

\* Eisdrache::addTy called with a Struct
AddStruct(id) ==
    /\ Len(addTy(types, StructT(id)).types) <= MaxTypes
    /\ Answer(Req("addTy", 0), StructT(id), addTy(types, StructT(id)))

TyInit ==
    /\ types = << >> /\ handed = {} /\ tyRet = << >>
    /\ this = MkLocal(0, FALSE, Null, << >>) /\ mem = Prior /\ locals = << >>
    /\ emitted = << >> /\ given = Given(Null, << >>)
    /\ ret = Ret("none", 0, FALSE, Null) /\ fatal = FALSE
    /\ fields = <<0, 0, 0, 0>> /\ heap = << >> /\ elemBits = 0
    /\ ext = << >> /\ aret = [fn |-> "none", arg |-> 0, val |-> 0, res |-> 0]
    /\ made = [n |-> -1, elems |-> << >>, resized |-> -1] /\ ub = FALSE
    /\ call = [fn |-> "none", op |-> "none", lhs |-> << >>, rhs |-> << >>, to |-> << >>,
               index |-> 0, lfirst |-> TRUE, symbol |-> ""]
    /\ outcome = [done |-> FALSE, insts |-> << >>, exited |-> FALSE, ty |-> << >>, added |-> 0]
    /\ CastIdle /\ FuncIdle /\ RwIdle

\* requests to the registry: the getters, Ty::getPtrTo, and addTy with the
\* kinds of type that have no getter
NextTy ==
    \/ \E req \in GetterRequests : GetTy(req)
    \/ \E i \in DOMAIN types : GetPtrTo(i)
    \/ \E id \in StructIds : StructGetPtrTo(id)
    \/ \E id \in StructIds : AddStruct(id)
    \/ \E a \in AliasNames, i \in DOMAIN types : AddAlias(a, i)

SpecTy == TyInit /\ [][NextTy]_vars

(***************************************************************************)
(* CLAIMS ABOUT THE TYPE REGISTRY                                          *)
(***************************************************************************)

\* C5: a request made twice - the same getter with the same argument, or
\* getPtrTo on the same instance - returns the same registry instance both
\* times, whatever was requested of the registry in between.
C5_SameRequestSameInstance ==
    \A p, q \in handed : p.req = q.req => p.idx = q.idx

\* C6: the registry never holds two distinct entries of which one says it is
\* equal to the other, and addTy returns an entry stored before whenever
\* one is equal to the candidate, in either direction.
C6_NoEqualEntries ==
    /\ [](\A i, j \in DOMAIN types : i # j => ~isEqual(types[i], types[j]))
    /\ [][\A r \in {tyRet'[k] : k \in DOMAIN tyRet'} :
            (\E i \in DOMAIN types : isEqual(types[i], r.cand) \/ isEqual(r.cand, types[i]))
            => r.idx \in DOMAIN types]_vars

(***************************************************************************)
(* THE GENERATED ARRAY TYPE                                                *)
(*                                                                         *)
(* Array::Array emits the bodies of the member functions through the       *)
(* builder; each operator below is one emitted body, run on the array      *)
(* struct "this" points to: getElementPtr(this, i) followed by a load or a *)
(* store becomes LoadField / StoreField with the index i of the source.    *)
(***************************************************************************)

MaxArg    == 2      \* the largest argument (size, index, value) passed
MaxAllocs == 2      \* allocations malloc makes
\* getInt(64, 16), the factor both constructors pass to set_factor
InitialFactor == 16

\* the values written into elements
ElemVals == {7}
\* getBit() of the element types tried
ElemBitsSet == {32, 64}
\* what the fields of a struct that was only allocated may hold
UninitWords == {0, 3}
\* bytes of a pointer: PointerType is as wide as getSizeTy(), 64 bits
PtrBytes == 64 \div 8

\* a byte nothing was written to; a zero byte is 0
Uninit == -1

\* the machine the generated code runs on
Machine(f, h, e, u) == [fields |-> f, heap |-> h, ext |-> e, ub |-> u]

\* getElementPtr(this, index) and a forced load: getElementVal
LoadField(M, index) == M.fields[index + 1]

\* getElementPtr(this, index) and storeValue
StoreField(M, index, v) == [M EXCEPT !.fields[index + 1] = v]

\* a call of an external function, as recorded
ExtCall(fn, args, res) == [fn |-> fn, args |-> args, res |-> res]

\* a live allocation
Live(h, p) == p \in DOMAIN h /\ ~h[p].freed

\* malloc(bytes): a fresh allocation of that many unwritten bytes
malloc(M, bytes) ==
    LET p == Len(M.heap) + 1 IN
    [M EXCEPT !.heap = Append(@, [len |-> bytes, data |-> [i \in 1..bytes |-> Uninit],
                                  freed |-> FALSE]),
              !.ext = Append(@, ExtCall("malloc", <<bytes>>, p))]

\* the address the last malloc returned
Allocated(M) == Len(M.heap)

\* free(p)
free(M, p) ==
    [M EXCEPT !.heap = IF Live(@, p) THEN [@ EXCEPT ![p].freed = TRUE] ELSE @,
              !.ub = @ \/ (p # 0 /\ ~Live(M.heap, p)),
              !.ext = Append(@, ExtCall("free", <<p>>, 0))]

\* memcpy(dst, src, n)
memcpy(M, dst, src, n) ==
    LET ok == Live(M.heap, dst) /\ Live(M.heap, src)
              /\ n <= M.heap[dst].len /\ n <= M.heap[src].len
    IN [M EXCEPT !.heap = IF ok
                          THEN [@ EXCEPT ![dst].data =
                                    [i \in 1..M.heap[dst].len |->
                                        IF i <= n THEN M.heap[src].data[i]
                                        ELSE M.heap[dst].data[i]]]
                          ELSE @,
                 !.ub = @ \/ (n > 0 /\ ~ok),
                 !.ext = Append(@, ExtCall("memcpy", <<dst, src, n>>, dst))]

\* storeValue(ptr, getNullPtr(...)): a null pointer written to the memory
\* at ptr, PtrBytes zero bytes
StoreNullAt(M, p) ==
    LET ok == Live(M.heap, p) /\ PtrBytes <= M.heap[p].len IN
    [M EXCEPT !.heap = IF Live(M.heap, p)
                       THEN [@ EXCEPT ![p].data =
                                 [i \in 1..M.heap[p].len |->
                                     IF i <= PtrBytes THEN 0 ELSE M.heap[p].data[i]]]
                       ELSE @,
              !.ub = @ \/ ~ok]

\* the accessors
get_buffer(M) == LoadField(M, 0)
set_buffer(M, v) == StoreField(M, 0, v)
get_size(M) == LoadField(M, 1)
set_size(M, v) == StoreField(M, 1, v)
get_max(M) == LoadField(M, 2)
set_max(M, v) == StoreField(M, 1, v)
get_factor(M) == LoadField(M, 3)
set_factor(M, v) == StoreField(M, 1, v)

\* elementTy->getBit() / 8
byteSize(bits) == bits \div 8

\* the bytes of a value of w bytes in memory, lowest first, and back
RECURSIVE Bytes(_, _)
Bytes(v, w) == IF w = 0 THEN << >> ELSE <<v % 256>> \o Bytes(v \div 256, w - 1)
RECURSIVE Value(_)
Value(bs) == IF bs = << >> THEN 0 ELSE Head(bs) + 256 * Value(Tail(bs))

\* CreateStore of a value of w bytes at p + off
StoreAt(M, p, off, w, v) ==
    LET ok == Live(M.heap, p) /\ off + w <= M.heap[p].len IN
    [M EXCEPT !.heap = IF ok
                       THEN [@ EXCEPT ![p].data =
                                 [i \in 1..M.heap[p].len |->
                                     IF i > off /\ i <= off + w THEN Bytes(v, w)[i - off]
                                     ELSE M.heap[p].data[i]]]
                       ELSE @,
              !.ub = @ \/ ~ok]

\* CreateLoad of a value of w bytes at p + off: the machine after it and the
\* value loaded, Uninit where a byte read was never written
LoadAt(M, p, off, w) ==
    LET ok == Live(M.heap, p) /\ off + w <= M.heap[p].len
        bs == [k \in 1..w |-> M.heap[p].data[off + k]]
    IN [M |-> [M EXCEPT !.ub = @ \/ ~ok],
        val |-> IF ~ok \/ \E k \in 1..w : bs[k] = Uninit THEN Uninit ELSE Value(bs)]

\* CreateGEP(bufferTy->getTy(), buffer, {index}): bufferTy->getTy() is the
\* pointer type, so one index step is the size of a pointer
ElementOffset(index) == index * PtrBytes

\* get_at_index(index): the machine after it and the element returned
get_at_index(M, bits, index) ==
    LoadAt(M, get_buffer(M), ElementOffset(index), byteSize(bits))

\* set_at_index(index, value)
set_at_index(M, bits, index, value) ==
    StoreAt(M, get_buffer(M), ElementOffset(index), byteSize(bits), value)

\* is_valid_index(index): binaryOp(LES) on two unsigned 64-bit operands
is_valid_index(M, index) == index < get_max(M)

\* destructor() with a slip: free is called without the test for null
destructor_noTest(M) == free(M, get_buffer(M))

\* destructor()
destructor(M) ==
    LET buffer == get_buffer(M) IN
    IF buffer = 0 THEN M ELSE free(M, buffer)

\* constructor()
constructor(M) ==
    LET M1 == set_buffer(M, 0)
        M2 == set_size(M1, 0)
        M3 == set_max(M2, 0)
    IN set_factor(M3, InitialFactor)

\* constructor_size(size)
constructor_size(M, bits, size) ==
    LET bytes == size * byteSize(bits)
        M1 == malloc(M, bytes)
        M2 == set_buffer(M1, Allocated(M1))
        M3 == set_size(M2, size)
        M4 == set_max(M3, 0)
    IN set_factor(M4, InitialFactor)

\* resize(new_size)
resize(M, bits, new_size) ==
    LET bytes == new_size * byteSize(bits)
        M1 == malloc(M, bytes)
        new_buffer == Allocated(M1)
        buffer == get_buffer(M1)
        size == get_size(M1)
        \* compareToNull(buffer) and the branch to "empty" or "copy"
        M2 == IF buffer = 0
              THEN StoreNullAt(M1, new_buffer)
              ELSE free(memcpy(M1, new_buffer, buffer, size), buffer)
        \* block "end"
        M3 == set_buffer(M2, new_buffer)
    IN StoreField(M3, 3, new_size)

\* the machine as a member function finds it: the calls and accesses of the
\* function before it are not its own
Entry == Machine(fields, heap, << >>, ub)
CalledWith(fn, arg, val, res) == [fn |-> fn, arg |-> arg, val |-> val, res |-> res]
Called(fn, arg, res) == CalledWith(fn, arg, 0, res)

\* no array built by constructor_size is being followed
NotMade == [n |-> -1, elems |-> << >>, resized |-> -1]

\* the record of the calls made on an array since constructor_size(n):
\* the values set_at_index wrote below n (0: none yet) and the last resize
MadeAfter(fn, arg, val) ==
    CASE fn = "constructor_size" ->
            [n |-> arg, elems |-> [i \in 1..arg |-> 0], resized |-> -1]
      [] fn = "set_at_index" ->
            IF arg < made.n THEN [made EXCEPT !.elems[arg + 1] = val] ELSE made
      [] fn = "resize" ->
            IF made.n >= 0 /\ arg >= made.n THEN [made EXCEPT !.resized = arg] ELSE NotMade
      [] fn \in {"get_buffer", "get_size", "get_max", "get_factor",
                 "get_at_index", "is_valid_index"} -> made
      [] OTHER -> NotMade

\* a member function has returned
ReturnWith(M, fn, arg, val, res) ==
    /\ fields' = M.fields
    /\ heap' = M.heap
    /\ ext' = M.ext
    /\ ub' = M.ub
    /\ aret' = CalledWith(fn, arg, val, res)
    /\ made' = MadeAfter(fn, arg, val)
    /\ UNCHANGED <<elemBits, localVars, tyVars, opVars, castVars, funcVars, rwVars>>

Return(M, fn, arg, res) == ReturnWith(M, fn, arg, 0, res)

Getters == {"get_buffer", "get_size", "get_max", "get_factor"}
Setters == {"set_buffer", "set_size", "set_max", "set_factor"}

\* a call of one of the four get_* functions
CallGetter(fn) ==
    /\ fn \in Getters
    /\ ~ub
    /\ Return(Entry, fn, 0,
              CASE fn = "get_buffer" -> get_buffer(Entry)
                [] fn = "get_size"   -> get_size(Entry)
                [] fn = "get_max"    -> get_max(Entry)
                [] fn = "get_factor" -> get_factor(Entry))

\* a call of one of the four set_* functions
CallSetter(fn, v) ==
    /\ fn \in Setters
    /\ ~ub
    /\ Return(CASE fn = "set_buffer" -> set_buffer(Entry, v)
                [] fn = "set_size"   -> set_size(Entry, v)
                [] fn = "set_max"    -> set_max(Entry, v)
                [] fn = "set_factor" -> set_factor(Entry, v),
              fn, v, 0)

\* a call of constructor(); nothing is modelled after undefined behaviour
CallConstructor ==
    /\ ~ub
    /\ Return(constructor(Entry), "constructor", 0, 0)

\* a call of constructor_size(n)
CallConstructorSize(n) ==
    /\ ~ub /\ Len(heap) < MaxAllocs
    /\ Return(constructor_size(Entry, elemBits, n), "constructor_size", n, 0)

\* a call of resize(n)
CallResize(n) ==
    /\ ~ub /\ Len(heap) < MaxAllocs
    /\ Return(resize(Entry, elemBits, n), "resize", n, 0)

\* a call of destructor()
CallDestructor ==
    /\ ~ub
    /\ Return(destructor(Entry), "destructor", 0, 0)

\* a call of is_valid_index(i)
CallIsValidIndex(i) ==
    /\ ~ub
    /\ Return(Entry, "is_valid_index", i, IF is_valid_index(Entry, i) THEN 1 ELSE 0)

\* a call of get_at_index(i)
CallGetAtIndex(i) ==
    /\ ~ub
    /\ LET r == get_at_index(Entry, elemBits, i) IN Return(r.M, "get_at_index", i, r.val)

\* a call of set_at_index(i, v)
CallSetAtIndex(i, v) ==
    /\ ~ub
    /\ ReturnWith(set_at_index(Entry, elemBits, i, v), "set_at_index", i, v, 0)

\* Struct::allocate has made the array struct, nothing has initialized it
ArrayInit ==
    /\ fields \in [1..4 -> UninitWords]
    /\ elemBits \in ElemBitsSet
    /\ heap = << >> /\ ext = << >> /\ ub = FALSE
    /\ aret = Called("none", 0, 0)
    /\ made = NotMade
    /\ call = [fn |-> "none", op |-> "none", lhs |-> << >>, rhs |-> << >>, to |-> << >>,
               index |-> 0, lfirst |-> TRUE, symbol |-> ""]
    /\ outcome = [done |-> FALSE, insts |-> << >>, exited |-> FALSE, ty |-> << >>, added |-> 0]
    /\ this = MkLocal(0, FALSE, Null, << >>) /\ mem = Prior /\ locals = << >>
    /\ emitted = << >> /\ given = Given(Null, << >>)
    /\ ret = Ret("none", 0, FALSE, Null) /\ fatal = FALSE
    /\ types = << >> /\ handed = {} /\ tyRet = << >>
    /\ CastIdle /\ FuncIdle /\ RwIdle

NextArray ==
    \/ \E fn \in Getters : CallGetter(fn)
    \/ \E fn \in Setters, v \in 0..MaxArg : CallSetter(fn, v)
    \/ CallConstructor
    \/ \E n \in 0..MaxArg : CallConstructorSize(n)
    \/ \E n \in 0..MaxArg : CallResize(n)
    \/ CallDestructor
    \/ \E i \in 0..MaxArg : CallIsValidIndex(i)
    \/ \E i \in 0..MaxArg : CallGetAtIndex(i)
    \/ \E i \in 0..MaxArg, v \in ElemVals : CallSetAtIndex(i, v)

SpecArray == ArrayInit /\ [][NextArray]_vars

(***************************************************************************)
(* CLAIMS ABOUT THE GENERATED ARRAY TYPE                                   *)
(***************************************************************************)

\* the index of the field an accessor is named after: buffer 0, size 1,
\* max 2, factor 3
FieldOf(fn) ==
    CASE fn \in {"get_buffer", "set_buffer"} -> 0
      [] fn \in {"get_size", "set_size"}     -> 1
      [] fn \in {"get_max", "set_max"}       -> 2
      [] fn \in {"get_factor", "set_factor"} -> 3

\* C7: set_F(this, v) writes v into field F and leaves the other three
\* fields as they were; get_F(this) returns field F and writes nothing.
C7_AccessorsUseTheirField ==
    [][/\ aret'.fn \in Setters
          => fields' = [fields EXCEPT ![FieldOf(aret'.fn) + 1] = aret'.arg]
       /\ aret'.fn \in Getters
          => aret'.res = fields[FieldOf(aret'.fn) + 1] /\ fields' = fields]_vars

\* C8: after constructor() the fields are buffer = null, size = 0, max = 0,
\* factor = 16.
C8_ConstructorFields ==
    aret.fn = "constructor" => fields = <<0, 0, 0, InitialFactor>>

\* C9: after constructor_size(n) buffer is the result of
\* malloc(n * (element bit width / 8)), size = n, max = n, factor = 16.
C9_ConstructorSizeFields ==
    aret.fn = "constructor_size"
    => /\ ext = <<ExtCall("malloc", <<aret.arg * (elemBits \div 8)>>, fields[1])>>
       /\ fields[2] = aret.arg
       /\ fields[3] = aret.arg
       /\ fields[4] = InitialFactor

\* C10: resize(new_max) stores the new allocation of new_max elements into
\* buffer and new_max into max and leaves size and factor alone; an old
\* buffer that is not null is copied with memcpy (size bytes) and freed
\* once; with a null old buffer neither memcpy nor free is called and the
\* new buffer is adopted with nothing written to it.
C10_ResizeEffect ==
    [][aret'.fn = "resize"
        => LET new == Len(heap) + 1
               alloc == ExtCall("malloc", <<aret'.arg * (elemBits \div 8)>>, new)
           IN /\ fields' = [fields EXCEPT ![1] = new, ![3] = aret'.arg]
              /\ fields[1] # 0
                 => ext' = <<alloc, ExtCall("memcpy", <<new, fields[1], fields[2]>>, new),
                             ExtCall("free", <<fields[1]>>, 0)>>
              /\ fields[1] = 0
                 => /\ ext' = <<alloc>>
                    /\ \A i \in DOMAIN heap'[new].data : heap'[new].data[i] = Uninit]_vars

\* every element below n has been written since constructor_size(n), and a
\* resize to at least n elements came last
WrittenAndResized(m) ==
    /\ m.n >= 1
    /\ \A i \in 1..m.n : m.elems[i] # 0
    /\ m.resized >= m.n

\* C11: on an array built with constructor_size(n), n >= 1, the calls
\* set_at_index(i, v) and get_at_index(i) with i < n and resize(m) with
\* m >= n stay within defined behaviour, and once the elements 0..n-1 have
\* been written and the array resized, get_at_index(i) returns the value
\* written to element i, for every i < n.
C11_ResizeKeepsElements ==
    [][/\ (/\ made'.n >= 1
           /\ \/ aret'.fn \in {"constructor_size", "resize"}
              \/ aret'.fn \in {"set_at_index", "get_at_index"} /\ aret'.arg < made'.n)
          => ~ub'
       /\ (WrittenAndResized(made') /\ aret'.fn = "get_at_index" /\ aret'.arg < made'.n)
          => aret'.res = made'.elems[aret'.arg + 1]]_vars

\* C12: after constructor_size(n) followed by resize(m), is_valid_index(i)
\* returns true for i < m and false for i >= m.
C12_ValidIndexAfterResize ==
    [][(aret'.fn = "is_valid_index" /\ made'.n >= 0 /\ made'.resized >= 0)
        => aret'.res = (IF aret'.arg < made'.resized THEN 1 ELSE 0)]_vars

\* C13: set_at_index(i, v) writes v to the bytes buffer + i * (element
\* size) .. + (element size) of the buffer and to no other byte, and stays
\* inside the allocation for every i below the number of elements
\* allocated; get_at_index(i) right after set_at_index(i, v) returns v.
C13_ElementAddressing ==
    [][/\ (aret'.fn = "set_at_index" /\ Live(heap, fields[1])
           /\ aret'.arg < heap[fields[1]].len \div (elemBits \div 8))
          => LET es == elemBits \div 8
                 at == aret'.arg * es
             IN /\ ~ub'
                /\ heap'[fields[1]].data =
                     [k \in 1..heap[fields[1]].len |->
                        IF k > at /\ k <= at + es THEN Bytes(aret'.val, es)[k - at]
                        ELSE heap[fields[1]].data[k]]
       /\ (aret.fn = "set_at_index" /\ aret'.fn = "get_at_index" /\ aret'.arg = aret.arg)
          => aret'.res = aret.val]_vars

\* C14: destructor() calls free exactly when the buffer field is not null,
\* once and on that buffer; with a null buffer (as constructor() leaves it)
\* it calls no external function. It writes no field.
C14_DestructorFrees ==
    [][aret'.fn = "destructor"
        => /\ fields' = fields
           /\ fields[1] = 0 => ext' = << >>
           /\ fields[1] # 0 => ext' = <<ExtCall("free", <<fields[1]>>, 0)>>]_vars

\* destructor() has freed the buffer constructor_size or resize allocated
C14_Witness ==
    /\ aret.fn = "destructor"
    /\ Live(heap, fields[1]) = FALSE /\ fields[1] \in DOMAIN heap
    /\ ext = <<ExtCall("free", <<fields[1]>>, 0)>>
    /\ ~ub

(***************************************************************************)
(* THE BUILDER CALLS ON TYPED OPERANDS                                     *)
(*                                                                         *)
(* typeCast, binaryOp, unaryOp, getElementPtr, storeValue and              *)
(* Func::operator[] are functions of their arguments as far as the         *)
(* instructions they emit and their result type go: the arguments of one   *)
(* call are drawn in OpInit and the action of the function called applies  *)
(* it.                                                                     *)
(***************************************************************************)

\* the operator codes binaryOp has a case for, and those of unaryOp
BinaryOps == {"ADD", "SUB", "MUL", "DIV", "MOD", "OR", "XOR", "AND", "LSH", "RSH",
              "EQU", "NEQ", "LES", "LTE", "GRE", "GTE"}
UnaryOps  == {"NEG", "NOT"}
Ops       == BinaryOps \cup UnaryOps

\* the element types of the struct declared
StructElems(id) == <<IntT(64, FALSE), FloatT(32)>>

\* the types operands and targets are given
IntTys    == {IntT(b, sg) : b \in {32, 64}, sg \in BOOLEAN}
FloatTys  == {FloatT(32), FloatT(64)}
PtrTys    == {PtrT(IntT(32, TRUE)), PtrT(FloatT(32)), PtrT(StructT(1))}
ValueTys  == IntTys \cup FloatTys \cup PtrTys \cup {StructT(1)}
TargetTys == IntTys \cup FloatTys \cup {PtrT(IntT(32, TRUE)), PtrT(FloatT(32))}

\* An operand: a Local with its type, whether v_ptr is an AllocaInst, and
\* its pending future.
Operand(ty, alloca, future) == [ty |-> ty, alloca |-> alloca, future |-> future]
\* value-like Locals, Locals made by declareLocal (type pointer to the
\* declared type), each without and with a pending future
Operands ==
    {Operand(t, FALSE, f) : t \in ValueTys, f \in {Null, Val("const", 1)}}
    \cup {Operand(PtrT(t), TRUE, f) : t \in ValueTys, f \in {Null, Val("const", 1)}}
\* the right-hand operands tried
RhsOperands ==
    {Operand(t, FALSE, Null) : t \in ValueTys}
    \cup {Operand(PtrT(t), TRUE, Val("const", 1)) : t \in {IntT(32, TRUE), FloatT(64)}}
    \cup {Operand(IntT(32, TRUE), FALSE, Val("const", 2))}

\* Ty::isFloatTy, Ty::isSignedTy, Ty::isPtrTy of a type
isFloatTy(ty)  == kind(ty) = "float"
isSignedTy(ty) == kind(ty) = "float" \/ (kind(ty) = "int" /\ Head(ty).sgn)
tyIsPtrTy(ty)  == kind(ty) = "ptr"

\* getBit of each kind of type
RECURSIVE getBit(_)
getBit(ty) ==
    CASE kind(ty) \in {"int", "float"} -> Head(ty).bit
      [] kind(ty) \in {"ptr", "alias"} -> getBit(Tail(ty))
      [] OTHER -> 0

\* isValidRHS(comp) of each kind of type
RECURSIVE isValidRHS(_, _)
isValidRHS(ty, comp) ==
    CASE kind(ty) = "alias" -> isValidRHS(Tail(ty), comp)
      [] kind(ty) = "void"  -> kind(comp) = "void"
      [] kind(ty) \in {"int", "float"} -> isEqual(ty, comp)
      [] OTHER -> FALSE

\* an instruction emitted by a builder call and the type it produces
Inst(op, ty) == [op |-> op, ty |-> ty]
\* the instructions a Local emitted for its future and its load
Code(ir) == [i \in DOMAIN ir |-> Inst(ir[i].op, << >>)]

\* the Local of an operand, and the state its operations work on
AsLocal(o) == MkLocal(PtrDepth(o.ty), o.alloca, o.future, << >>)
Fresh(o) == St(AsLocal(o), Prior, << >>)

\* operand.loadValue(): the instructions emitted, the type of the Local
\* returned, whether it is a new Local, and the Local's state afterwards
Loaded(o) ==
    LET r == loadValue(Fresh(o), FALSE) IN
    [ir |-> r.st.ir, ty |-> IF r.new THEN Tail(o.ty) ELSE o.ty, new |-> r.new, st |-> r.st]

\* getValuePtr() of the Local loadValue returned: the instructions emitted
\* by then. A new Local has no future; the operand itself may have one.
ValuePtrOf(ld) == IF ld.new THEN ld.ir ELSE invokeFuture(ld.st).ir

\* what a builder call did: the instructions emitted, whether complain()
\* ended the process, the type of the Local returned, the Locals added
Out(insts, exited, ty, added) ==
    [done |-> TRUE, insts |-> insts, exited |-> exited, ty |-> ty, added |-> added]
Exit(insts, added) == Out(insts, TRUE, << >>, added)

\* the conversion picked, with a slip: a signed integer is widened to a
\* signed type by zero-extension
CastOp_widenByZeros(from, to) ==
    IF isFloatTy(from)
    THEN IF isFloatTy(to) THEN (IF getBit(from) < getBit(to) THEN "fpext" ELSE "fptrunc")
         ELSE IF isSignedTy(to) THEN "fptosi"
         ELSE IF tyIsPtrTy(to) THEN "exit"
         ELSE "fptoui"
    ELSE IF isSignedTy(from)
    THEN IF isFloatTy(to) THEN "sitofp"
         ELSE IF tyIsPtrTy(to) THEN "inttoptr"
         ELSE (IF getBit(from) < getBit(to) THEN "zext" ELSE "trunc")
    ELSE IF tyIsPtrTy(from)
    THEN IF isFloatTy(to) THEN "exit"
         ELSE IF tyIsPtrTy(to) THEN "bitcast"
         ELSE "ptrtoint"
    ELSE IF isFloatTy(to) THEN "uitofp"
         ELSE IF tyIsPtrTy(to) THEN "inttoptr"
         ELSE (IF getBit(from) < getBit(to) THEN "zext" ELSE "trunc")

\* the conversion picked, with a slip: an unsigned integer is converted to
\* a float with the signed instruction
CastOp_intToFloatSigned(from, to) ==
    IF isFloatTy(from)
    THEN IF isFloatTy(to) THEN (IF getBit(from) < getBit(to) THEN "fpext" ELSE "fptrunc")
         ELSE IF isSignedTy(to) THEN "fptosi"
         ELSE IF tyIsPtrTy(to) THEN "exit"
         ELSE "fptoui"
    ELSE IF isSignedTy(from)
    THEN IF isFloatTy(to) THEN "sitofp"
         ELSE IF tyIsPtrTy(to) THEN "inttoptr"
         ELSE IF isSignedTy(to) THEN (IF getBit(from) < getBit(to) THEN "sext" ELSE "trunc")
         ELSE (IF getBit(from) < getBit(to) THEN "zext" ELSE "trunc")
    ELSE IF tyIsPtrTy(from)
    THEN IF isFloatTy(to) THEN "exit"
         ELSE IF tyIsPtrTy(to) THEN "bitcast"
         ELSE "ptrtoint"
    ELSE IF isFloatTy(to) THEN "sitofp"
         ELSE IF tyIsPtrTy(to) THEN "inttoptr"
         ELSE (IF getBit(from) < getBit(to) THEN "zext" ELSE "trunc")

\* the conversion typeCast picks for a loaded type and a target: "exit"
\* where it complains
CastOp(from, to) ==
    IF isFloatTy(from)
    THEN IF isFloatTy(to) THEN (IF getBit(from) < getBit(to) THEN "fpext" ELSE "fptrunc")
         ELSE IF isSignedTy(to) THEN "fptosi"
         ELSE IF tyIsPtrTy(to) THEN "exit"
         ELSE "fptoui"
    ELSE IF isSignedTy(from)
    THEN IF isFloatTy(to) THEN "sitofp"
         ELSE IF tyIsPtrTy(to) THEN "inttoptr"
         ELSE IF isSignedTy(to) THEN (IF getBit(from) < getBit(to) THEN "sext" ELSE "trunc")
         ELSE (IF getBit(from) < getBit(to) THEN "zext" ELSE "trunc")
    ELSE IF tyIsPtrTy(from)
    THEN IF isFloatTy(to) THEN "exit"
         ELSE IF tyIsPtrTy(to) THEN "bitcast"
         ELSE "ptrtoint"
    ELSE IF isFloatTy(to) THEN "uitofp"
         ELSE IF tyIsPtrTy(to) THEN "inttoptr"
         ELSE (IF getBit(from) < getBit(to) THEN "zext" ELSE "trunc")

\* Eisdrache::typeCast(value, to)
typeCast(value, to) ==
    LET ld == Loaded(value)
        new == IF ld.new THEN 1 ELSE 0
    IN IF isEqual(value.ty, to)
       THEN Out(Code(ld.ir), FALSE, ld.ty, new)
       ELSE LET pre == Code(ValuePtrOf(ld))
                op == CastOp(ld.ty, to)
            IN IF op = "exit" THEN Exit(pre, new + 1)
               ELSE IF op = "bitcast" THEN Out(Append(pre, Inst(op, to)), FALSE, to, new + 2)
               ELSE Out(Append(pre, Inst(op, to)), FALSE, to, new + 1)

\* the instruction binaryOp builds for an operator code on operands of type ty
BinInst(op, ty) ==
    LET pick(f, sg, u) == IF isFloatTy(ty) THEN f ELSE IF isSignedTy(ty) THEN sg ELSE u IN
    CASE op = "ADD" -> pick("fadd", "add", "add")
      [] op = "SUB" -> pick("fsub", "sub", "sub")
      [] op = "MUL" -> pick("fmul", "mul", "mul")
      [] op = "DIV" -> "fdiv"
      [] op = "MOD" -> pick("frem", "srem", "urem")
      [] op = "OR"  -> "or"
      [] op = "XOR" -> "xor"
      [] op = "AND" -> "and"
      [] op = "LSH" -> "shl"
      [] op = "RSH" -> "lshr"
      [] op = "EQU" -> pick("fcmp_oeq", "icmp_eq", "icmp_eq")
      [] op = "NEQ" -> pick("fcmp_one", "icmp_ne", "icmp_ne")
      [] op = "LES" -> pick("fcmp_olt", "icmp_slt", "icmp_ult")
      [] op = "LTE" -> pick("fcmp_ole", "icmp_sle", "icmp_ule")
      [] op = "GRE" -> pick("fcmp_ogt", "icmp_sgt", "icmp_ugt")
      [] op = "GTE" -> pick("fcmp_oge", "icmp_sge", "icmp_uge")

\* the instructions of a.getValuePtr() and b.getValuePtr() as the arguments
\* of one call: the order of the two is the compiler's choice
BothValuePtrs(a, b, afirst) ==
    LET ai == IF a.new THEN << >> ELSE Code(invokeFuture(a.st).ir)
        bi == IF b.new THEN << >> ELSE Code(invokeFuture(b.st).ir)
    IN IF afirst THEN ai \o bi ELSE bi \o ai

\* binaryOp with a slip: the result type of DIV is left at the operand type
binaryOp_divKeepsTy(op, LHS, RHS, lfirst) ==
    LET l == Loaded(LHS)
        r == Loaded(RHS)
        pre == Code(l.ir) \o Code(r.ir)
        new == (IF l.new THEN 1 ELSE 0) + (IF r.new THEN 1 ELSE 0)
    IN IF ~isValidRHS(l.ty, r.ty) \/ op \notin BinaryOps THEN Exit(pre, new)
       ELSE Out(pre \o BothValuePtrs(l, r, lfirst) \o <<Inst(BinInst(op, l.ty), l.ty)>>,
                FALSE, l.ty, new + 1)

\* binaryOp with a slip: the operand types are not checked
binaryOp_noCheck(op, LHS, RHS, lfirst) ==
    LET l == Loaded(LHS)
        r == Loaded(RHS)
        pre == Code(l.ir) \o Code(r.ir)
        new == (IF l.new THEN 1 ELSE 0) + (IF r.new THEN 1 ELSE 0)
        ty == IF op = "DIV" THEN FloatT(64) ELSE l.ty
    IN IF op \notin BinaryOps THEN Exit(pre, new)
       ELSE Out(pre \o BothValuePtrs(l, r, lfirst) \o <<Inst(BinInst(op, l.ty), ty)>>,
                FALSE, ty, new + 1)

\* Eisdrache::binaryOp(op, LHS, RHS)
binaryOp(op, LHS, RHS, lfirst) ==
    LET l == Loaded(LHS)
        r == Loaded(RHS)
        pre == Code(l.ir) \o Code(r.ir)
        new == (IF l.new THEN 1 ELSE 0) + (IF r.new THEN 1 ELSE 0)
        ty == IF op = "DIV" THEN FloatT(64) ELSE l.ty
    IN IF ~isValidRHS(l.ty, r.ty) THEN Exit(pre, new)
       ELSE IF op \notin BinaryOps THEN Exit(pre, new)
       ELSE Out(pre \o BothValuePtrs(l, r, lfirst) \o <<Inst(BinInst(op, l.ty), ty)>>,
                FALSE, ty, new + 1)

\* IntTy::getSignedTy
getSignedTyOf(ty) == IntT(Head(ty).bit, TRUE)

\* Eisdrache::unaryOp(op, expr)
unaryOp(op, expr) ==
    LET load == Loaded(expr)
        new == IF load.new THEN 1 ELSE 0
        pre == Code(ValuePtrOf(load))
    IN CASE op = "NEG" ->
              Out(Append(pre, Inst(IF isFloatTy(load.ty) THEN "fneg" ELSE "neg", load.ty)),
                  FALSE, IF kind(load.ty) = "int" THEN getSignedTyOf(load.ty) ELSE load.ty,
                  new + 1)
         [] op = "NOT" -> Out(Append(pre, Inst("not", load.ty)), FALSE, load.ty, new + 1)
         [] OTHER -> Exit(Code(load.ir), new)

\* getElementPtr with a slip: the address is that of the first element,
\* whatever the index
getElementPtr_firstElement(parent, index) ==
    IF kind(parent.ty) # "ptr" THEN Exit(<< >>, 0)
    ELSE IF kind(Tail(parent.ty)) # "struct" THEN Exit(<< >>, 0)
    ELSE LET elem == StructElems(Head(Tail(parent.ty)).name)[1] IN
         Out(Append(Code(invokeFuture(Fresh(parent)).ir), Inst("gep", PtrT(elem))),
             FALSE, PtrT(elem), 1)

\* Eisdrache::getElementPtr(parent, index)
getElementPtr(parent, index) ==
    IF kind(parent.ty) # "ptr" THEN Exit(<< >>, 0)
    ELSE IF kind(Tail(parent.ty)) # "struct" THEN Exit(<< >>, 0)
    ELSE LET elem == StructElems(Head(Tail(parent.ty)).name)[index + 1] IN
         Out(Append(Code(invokeFuture(Fresh(parent)).ir), Inst("gep", PtrT(elem))),
             FALSE, PtrT(elem), 1)

\* Eisdrache::storeValue(local, value)
storeValue(local, value, lfirst) ==
    IF ~tyIsPtrTy(local.ty) THEN Exit(<< >>, 0)
    ELSE LET own(o) == [new |-> FALSE, st |-> Fresh(o)] IN
         Out(Append(BothValuePtrs(own(value), own(local), ~lfirst), Inst("store", << >>)),
             FALSE, << >>, 0)

\* Eisdrache::getElementVal(parent, index): the Local getElementPtr added,
\* then its loadValue(true, name)
getElementVal(parent, index) ==
    LET ptr == getElementPtr(parent, index) IN
    IF ptr.exited THEN ptr
    ELSE LET r == loadValue(Fresh(Operand(ptr.ty, FALSE, Null)), TRUE) IN
         Out(ptr.insts \o Code(r.st.ir), FALSE,
             IF r.new THEN Tail(ptr.ty) ELSE ptr.ty,
             ptr.added + (IF r.new THEN 1 ELSE 0))

\* the ways of allocating an instance of struct id, and the Local each
\* registers: its type beside the alloca emitted
AllocWays == {"allocateStruct(wrap)", "allocateStruct(typeName)",
              "Struct::allocate", "Array::allocate"}
\* Eisdrache::allocateStruct(Struct::Ptr wrap, name)
allocateStruct(id) == Out(<<Inst("alloca", StructT(id))>>, FALSE, StructT(id), 1)
\* Eisdrache::allocateStruct(std::string typeName, name)
allocateStructNamed(id) ==
    Out(<<Inst("alloca", StructT(id))>>, FALSE, PtrT(StructT(id)), 1)
\* Eisdrache::Struct::allocate(name)
allocate(id) == Out(<<Inst("alloca", StructT(id))>>, FALSE, StructT(id), 1)
\* Eisdrache::Array::allocate(name): allocateStruct(self, name), self the
\* Struct::Ptr of the array's struct
ArrayAllocate(id) == allocateStruct(id)
Allocation(way, id) ==
    CASE way = "allocateStruct(wrap)"     -> allocateStruct(id)
      [] way = "allocateStruct(typeName)" -> allocateStructNamed(id)
      [] way = "Struct::allocate"         -> allocate(id)
      [] way = "Array::allocate"          -> ArrayAllocate(id)

\* the names in Func::locals and of the parameters of the function asked
FuncLocals == {"a"}
FuncParams == {"p"}
Symbols    == {"a", "p", "x"}

\* Func::operator[](symbol)
FuncIndex(symbol) ==
    IF symbol \in FuncLocals \/ symbol \in FuncParams
    THEN Out(<< >>, FALSE, << >>, 0)
    ELSE Exit(<< >>, 0)

\* a builder call and its arguments
Call(fn, op, lhs, rhs, to, index, lfirst, symbol) ==
    [fn |-> fn, op |-> op, lhs |-> lhs, rhs |-> rhs, to |-> to,
     index |-> index, lfirst |-> lfirst, symbol |-> symbol]
NoOperand == Operand(<< >>, FALSE, Null)

\* the calls tried
CallsTried ==
    {Call("typeCast", "none", l, NoOperand, to, 0, TRUE, "") :
        l \in Operands, to \in TargetTys}
    \cup {Call("binaryOp", op, l, r, << >>, 0, lf, "") :
        op \in Ops, l \in Operands, r \in RhsOperands, lf \in BOOLEAN}
    \cup {Call("unaryOp", op, l, NoOperand, << >>, 0, TRUE, "") :
        op \in Ops, l \in Operands}
    \cup {Call("getElementPtr", "none", l, NoOperand, << >>, i, TRUE, "") :
        l \in Operands, i \in 0..1}
    \cup {Call("getElementVal", "none", l, NoOperand, << >>, i, TRUE, "") :
        l \in Operands, i \in 0..1}
    \cup {Call("allocate", "none", NoOperand, NoOperand, << >>, i, TRUE, way) :
        way \in AllocWays, i \in 0..1}
    \cup {Call("storeValue", "none", l, r, << >>, 0, lf, "") :
        l \in Operands, r \in RhsOperands, lf \in BOOLEAN}
    \cup {Call("operator[]", "none", NoOperand, NoOperand, << >>, 0, TRUE, sym) :
        sym \in Symbols}

\* the call returns or ends the process
Does(out) ==
    /\ ~outcome.done
    /\ outcome' = out
    /\ UNCHANGED <<call, localVars, tyVars, arrVars, castVars, funcVars, rwVars>>

TypeCast ==
    /\ call.fn = "typeCast"
    /\ Does(typeCast(call.lhs, call.to))

BinaryOp ==
    /\ call.fn = "binaryOp"
    /\ Does(binaryOp(call.op, call.lhs, call.rhs, call.lfirst))

UnaryOp ==
    /\ call.fn = "unaryOp"
    /\ Does(unaryOp(call.op, call.lhs))

GetElementPtr ==
    /\ call.fn = "getElementPtr"
    /\ Does(getElementPtr(call.lhs, call.index))

GetElementVal ==
    /\ call.fn = "getElementVal"
    /\ Does(getElementVal(call.lhs, call.index))

\* one of the four ways of allocating an instance of the struct
Allocate ==
    /\ call.fn = "allocate"
    /\ Does(Allocation(call.symbol, 1))

StoreValue ==
    /\ call.fn = "storeValue"
    /\ Does(storeValue(call.lhs, call.rhs, call.lfirst))

FuncSubscript ==
    /\ call.fn = "operator[]"
    /\ Does(FuncIndex(call.symbol))

OpInit ==
    /\ call \in CallsTried
    /\ outcome = [done |-> FALSE, insts |-> << >>, exited |-> FALSE, ty |-> << >>, added |-> 0]
    /\ this = MkLocal(0, FALSE, Null, << >>) /\ mem = Prior /\ locals = << >>
    /\ emitted = << >> /\ given = Given(Null, << >>)
    /\ ret = Ret("none", 0, FALSE, Null) /\ fatal = FALSE
    /\ types = << >> /\ handed = {} /\ tyRet = << >>
    /\ fields = <<0, 0, 0, 0>> /\ heap = << >> /\ elemBits = 0
    /\ ext = << >> /\ aret = Called("none", 0, 0) /\ made = NotMade /\ ub = FALSE
    /\ CastIdle /\ FuncIdle /\ RwIdle

NextOp ==
    \/ TypeCast
    \/ BinaryOp
    \/ UnaryOp
    \/ GetElementPtr
    \/ GetElementVal
    \/ Allocate
    \/ StoreValue
    \/ FuncSubscript

SpecOp == OpInit /\ [][NextOp]_vars

(***************************************************************************)
(* CLAIMS ABOUT THE BUILDER CALLS                                          *)
(***************************************************************************)

\* the type of the value an operand stands for: the declared type of a
\* Local made by declareLocal, the type of any other Local
LoadedTyOf(o) == IF o.alloca THEN Tail(o.ty) ELSE o.ty

\* the instructions a Local emits on its own account: its future and its load
LocalInsts == {"load", "store", "call"}

\* the last instruction a call emitted
LastInst == outcome.insts[Len(outcome.insts)]

\* C15: typeCast of a float value to a pointer type ends the process and
\* emits no instruction before doing so, whether the source is value-like,
\* alloca-like, or has a pending future.
C15_FloatToPtrExitsClean ==
    (/\ outcome.done /\ call.fn = "typeCast"
     /\ isFloatTy(LoadedTyOf(call.lhs)) /\ tyIsPtrTy(call.to))
    => outcome.exited /\ outcome.insts = << >>

\* the calls that violate a contract the builder checks
ContractViolation(c) ==
    \/ /\ c.fn = "typeCast"
       /\ \/ isFloatTy(LoadedTyOf(c.lhs)) /\ tyIsPtrTy(c.to)
          \/ tyIsPtrTy(LoadedTyOf(c.lhs)) /\ isFloatTy(c.to)
    \/ /\ c.fn = "getElementPtr"
       /\ ~(kind(c.lhs.ty) = "ptr" /\ kind(Tail(c.lhs.ty)) = "struct")
    \/ c.fn = "storeValue" /\ kind(c.lhs.ty) # "ptr"
    \/ c.fn = "operator[]" /\ c.symbol \notin FuncLocals \cup FuncParams
    \/ c.fn = "binaryOp" /\ c.op \notin BinaryOps
    \/ c.fn = "unaryOp" /\ c.op \notin UnaryOps

\* C16: every call that violates a checked contract ends the process and
\* returns nothing to its caller.
C16_ViolationsExit ==
    (outcome.done /\ ContractViolation(call)) => outcome.exited /\ outcome.ty = << >>

\* operand types binaryOp accepts: Int or Float on both sides, of the same
\* kind, width and signedness
ValidOperandTys(l, r) == kind(l) \in {"int", "float"} /\ l = r

\* C17: binaryOp on operands whose loaded types are not valid together (a
\* pointer or struct operand, or Int/Float operands that differ) ends the
\* process and emits no operator instruction.
C17_InvalidOperandsExit ==
    (/\ outcome.done /\ call.fn = "binaryOp"
     /\ ~ValidOperandTys(LoadedTyOf(call.lhs), LoadedTyOf(call.rhs)))
    => /\ outcome.exited
       /\ \A i \in DOMAIN outcome.insts : outcome.insts[i].op \in LocalInsts

\* binaryOp was called with a pointer operand and has ended the process
C17_Witness ==
    /\ outcome.done /\ call.fn = "binaryOp" /\ outcome.exited
    /\ call.op \in BinaryOps
    /\ kind(LoadedTyOf(call.lhs)) = "int" /\ kind(LoadedTyOf(call.rhs)) = "ptr"

\* C18: binaryOp on operands of equal Int or Float type returns a Local of
\* the loaded LHS type for every operator but DIV, comparisons included,
\* and of the 64-bit float type for DIV.
C18_ResultTy ==
    (/\ outcome.done /\ call.fn = "binaryOp" /\ call.op \in BinaryOps
     /\ ValidOperandTys(LoadedTyOf(call.lhs), LoadedTyOf(call.rhs)))
    => /\ ~outcome.exited
       /\ outcome.ty = IF call.op = "DIV" THEN FloatT(64) ELSE LoadedTyOf(call.lhs)

\* DIV on two 32-bit signed integers loaded from their variables has
\* returned a 64-bit float
C18_Witness ==
    /\ outcome.done /\ call.fn = "binaryOp" /\ call.op = "DIV"
    /\ call.lhs = Operand(PtrT(IntT(32, TRUE)), TRUE, Null)
    /\ LoadedTyOf(call.rhs) = IntT(32, TRUE)
    /\ outcome.ty = FloatT(64) /\ ~outcome.exited

\* C19: typeCast between integer types of different widths sign-extends
\* from a signed source and zero-extends from an unsigned one when the
\* target is wider, whatever the target's signedness, and truncates when
\* the target is narrower.
C19_IntWidening ==
    (/\ outcome.done /\ call.fn = "typeCast"
     /\ kind(LoadedTyOf(call.lhs)) = "int" /\ kind(call.to) = "int"
     /\ Head(LoadedTyOf(call.lhs)).bit # Head(call.to).bit)
    => LET from == Head(LoadedTyOf(call.lhs)) IN
       /\ ~outcome.exited /\ outcome.ty = call.to
       /\ LastInst = Inst(IF from.bit < Head(call.to).bit
                          THEN (IF from.sgn THEN "sext" ELSE "zext")
                          ELSE "trunc", call.to)

\* C20: typeCast between a float and an integer type picks the signed or
\* the unsigned conversion by the signedness of the target type (isSignedTy
\* of the target), from float to int and from int to float.
C20_ByTargetSignedness ==
    (outcome.done /\ call.fn = "typeCast")
    => LET from == LoadedTyOf(call.lhs) IN
       /\ (isFloatTy(from) /\ kind(call.to) = "int")
          => LastInst = Inst(IF isSignedTy(call.to) THEN "fptosi" ELSE "fptoui", call.to)
       /\ (kind(from) = "int" /\ isFloatTy(call.to))
          => LastInst = Inst(IF isSignedTy(call.to) THEN "sitofp" ELSE "uitofp", call.to)

\* C20 as amended: from float to int the conversion is picked by the
\* signedness of the target, from int to float by the signedness of the
\* source.
C20_BySignednessOfTheInt ==
    (outcome.done /\ call.fn = "typeCast")
    => LET from == LoadedTyOf(call.lhs) IN
       /\ (isFloatTy(from) /\ kind(call.to) = "int")
          => LastInst = Inst(IF Head(call.to).sgn THEN "fptosi" ELSE "fptoui", call.to)
       /\ (kind(from) = "int" /\ isFloatTy(call.to))
          => LastInst = Inst(IF Head(from).sgn THEN "sitofp" ELSE "uitofp", call.to)

\* an unsigned 32-bit integer has been cast to a 64-bit float with the
\* unsigned conversion
C20_Witness ==
    /\ outcome.done /\ call.fn = "typeCast" /\ ~outcome.exited
    /\ LoadedTyOf(call.lhs) = IntT(32, FALSE) /\ call.to = FloatT(64)
    /\ LastInst = Inst("uitofp", FloatT(64))

(***************************************************************************)
(* A SIGNED INTEGER CAST TO ANOTHER WIDTH AND BACK                         *)
(*                                                                         *)
(* typeCast is applied twice: to an N-bit signed integer with target the   *)
(* M-bit signed type, then to the Local it returned with target the N-bit  *)
(* signed type. The instructions it emits are executed on the bit pattern  *)
(* of the value.                                                           *)
(***************************************************************************)

\* the widths tried for N and M
CastBits == {3, 4, 8}

Pow2(n) == 2 ^ n

\* the bit pattern (0 .. 2^bit - 1) of a signed value, and the signed value
\* of a bit pattern, in two's complement
Pattern(bit, s) == s % Pow2(bit)
SignedVal(bit, u) == IF u >= Pow2(bit - 1) THEN u - Pow2(bit) ELSE u

\* what the conversion instructions CreateTrunc, CreateSExt and CreateZExt
\* compute from the pattern u of a from-bit integer; a load hands on what
\* was stored
Convert(op, from, to, u) ==
    CASE op = "trunc" -> u % Pow2(to)
      [] op = "sext"  -> Pattern(to, SignedVal(from, u))
      [] op = "zext"  -> u
      [] OTHER        -> u

\* the instructions insts executed on the pattern u of an integer of type ty:
\* the type and the pattern of the result
RECURSIVE Run(_, _, _)
Run(insts, ty, u) ==
    IF insts = << >> THEN [ty |-> ty, val |-> u]
    ELSE LET i == Head(insts) IN
         IF i.ty = << >> THEN Run(Tail(insts), ty, u)
         ELSE Run(Tail(insts), i.ty, Convert(i.op, getBit(ty), getBit(i.ty), u))

\* typeCast(value, to) on a Local standing for the pattern u of type ty
Ran(out, ty, u) ==
    [out |-> out, ty |-> out.ty, val |-> Run(out.insts, ty, u).val]

CastValue(ty, alloca, u, to) ==
    Ran(typeCast(Operand(IF alloca THEN PtrT(ty) ELSE ty, alloca, Null), to), ty, u)

\* the Local the k-th cast returned replaces the one it was applied to
Casted(r, k) ==
    /\ ~r.out.exited
    /\ cast' = [cast EXCEPT !.ty = r.ty, !.val = r.val, !.insts = r.out.insts,
                            !.casts = k]

\* the first cast, N bits to M bits
CastTo ==
    /\ cast.casts = 0
    /\ Casted(CastValue(cast.ty, cast.alloca, cast.val, IntT(cast.m, TRUE)), 1)
    /\ UNCHANGED <<localVars, tyVars, arrVars, opVars, funcVars, rwVars>>

\* the second cast, of the Local the first returned, back to N bits
CastBack ==
    /\ cast.casts = 1
    /\ Casted(CastValue(cast.ty, FALSE, cast.val, IntT(cast.n, TRUE)), 2)
    /\ UNCHANGED <<localVars, tyVars, arrVars, opVars, funcVars, rwVars>>

CastInit ==
    /\ cast \in {[n |-> n, m |-> m, alloca |-> a, orig |-> SignedVal(n, u),
                  ty |-> IntT(n, TRUE), val |-> u, insts |-> << >>, casts |-> 0] :
                 n \in CastBits, m \in CastBits, a \in BOOLEAN, u \in 0..255}
    /\ cast.val < Pow2(cast.n)
    /\ call = [fn |-> "none", op |-> "none", lhs |-> << >>, rhs |-> << >>, to |-> << >>,
               index |-> 0, lfirst |-> TRUE, symbol |-> ""]
    /\ outcome = [done |-> FALSE, insts |-> << >>, exited |-> FALSE, ty |-> << >>, added |-> 0]
    /\ this = MkLocal(0, FALSE, Null, << >>) /\ mem = Prior /\ locals = << >>
    /\ emitted = << >> /\ given = Given(Null, << >>)
    /\ ret = Ret("none", 0, FALSE, Null) /\ fatal = FALSE
    /\ types = << >> /\ handed = {} /\ tyRet = << >>
    /\ fields = <<0, 0, 0, 0>> /\ heap = << >> /\ elemBits = 0
    /\ ext = << >> /\ aret = Called("none", 0, 0) /\ made = NotMade /\ ub = FALSE
    /\ FuncIdle /\ RwIdle

NextCast ==
    \/ CastTo
    \/ CastBack

SpecCast == CastInit /\ [][NextCast]_vars

\* the signed value s reduced to its low m bits, read as an m-bit signed value
Wrap(m, s) == ((s + Pow2(m - 1)) % Pow2(m)) - Pow2(m - 1)

\* C21: an N-bit signed integer cast to M bits signed and back to N bits is
\* the original value when M >= N, and for M < N the original value reduced
\* to its low M bits (two's complement) and sign-extended back to N bits.
C21_CastRoundTrip ==
    cast.casts = 2
        => /\ cast.ty = IntT(cast.n, TRUE)
           /\ SignedVal(cast.n, cast.val) =
                 IF cast.m >= cast.n THEN cast.orig ELSE Wrap(cast.m, cast.orig)

\* a negative 8-bit value that 4 bits cannot hold went to 4 bits and back
C21_Witness ==
    /\ cast.casts = 2 /\ cast.n = 8 /\ cast.m = 4
    /\ cast.orig = -100
    /\ SignedVal(8, cast.val) = -4
    /\ cast.insts = <<Inst("sext", IntT(8, TRUE))>>

(***************************************************************************)
(* FURTHER CLAIMS ABOUT THE BUILDER CALLS (checked under SpecOp)           *)
(***************************************************************************)

\* C24: getElementPtr(parent, index) on a parent of type Pointer<Struct>
\* returns a new Local of type Pointer<element[index]>, by the struct's
\* declaration order, and getElementVal(parent, index) a Local of type
\* element[index] obtained by a load of that pointer.
C24_ElementTy ==
    (/\ outcome.done
     /\ call.fn \in {"getElementPtr", "getElementVal"}
     /\ kind(call.lhs.ty) = "ptr" /\ kind(Tail(call.lhs.ty)) = "struct")
        => LET elem == StructElems(Head(Tail(call.lhs.ty)).name)[call.index + 1]
               n == Len(outcome.insts)
           IN /\ ~outcome.exited
              /\ call.fn = "getElementPtr"
                 => /\ outcome.ty = PtrT(elem)
                    /\ outcome.added = 1
                    /\ outcome.insts[n] = Inst("gep", PtrT(elem))
              /\ call.fn = "getElementVal"
                 => /\ outcome.ty = elem
                    /\ outcome.added = 2
                    /\ outcome.insts[n - 1] = Inst("gep", PtrT(elem))
                    /\ outcome.insts[n].op = "load"

\* getElementVal of the second element of an allocated struct returned a
\* 32-bit float
C24_Witness ==
    /\ outcome.done /\ ~outcome.exited
    /\ call.fn = "getElementVal" /\ call.index = 1
    /\ call.lhs = Operand(PtrT(StructT(1)), TRUE, Null)
    /\ outcome.ty = FloatT(32)

\* C28: a typeCast(value, to) that does not end the process returns a Local
\* of type to, in the same-type case and for alloca-like sources as well.
C28_CastReturnsTarget ==
    (outcome.done /\ call.fn = "typeCast" /\ ~outcome.exited) => outcome.ty = call.to

\* C29: every way of allocating a struct instance returns a Local of type
\* Pointer<Struct>, which getElementPtr accepts.
C29_AllocatedIsStructPtr ==
    (outcome.done /\ call.fn = "allocate")
        => /\ ~outcome.exited
           /\ outcome.ty = PtrT(StructT(1))
           /\ ~getElementPtr(Operand(outcome.ty, TRUE, Null), call.index).exited

(***************************************************************************)
(* THE FUNCTION TABLE, THE CURRENT FUNCTION AND THE INSERTION POINT        *)
(*                                                                         *)
(* An llvm::Function is known by the number of its creation. A Func is the *)
(* wrapper stored in Eisdrache::functions: func is its llvm::Function,     *)
(* locals its table of Locals; added counts the calls of addLocal on it.   *)
(***************************************************************************)

\* the llvm::Functions created in one run, and the Locals added to the
\* Funcs of the table
MaxFuncs == 3
MaxAdds  == 3

\* the names functions are declared with; createMemberFunc builds the name
\* from the struct's name and the member's
FuncNames   == {"f", "S_get"}
MemberNames == {"S_get"}

\* A name is a text that ends in no digit followed by digits, so that
\* appending std::to_string(n) is appending digits.
Name(text, digits) == <<text, digits>>
NoName  == Name("", << >>)
Unnamed == Name("unnamed", << >>)
\* the names given to the Locals declared: none, and names a caller chose
LocalNames == {NoName, Name("unnamed", <<1>>), Name("x", << >>)}

\* std::to_string of a number below ten, and a name with it appended
Digits(n) == <<n>>
Suffixed(name, n) == Name(name[1], name[2] \o Digits(n))

\* Local::getName of a Local whose value has the name given
getName(name) == IF name = NoName THEN Unnamed ELSE name

\* Func::addLocal(local) on the table locals, local being the Local of the
\* id-th call: the table afterwards and the key used
addLocal(table, name, id) ==
    LET symbol == IF getName(name) = Unnamed \/ getName(name) \in DOMAIN table
                  THEN Suffixed(getName(name), Cardinality(DOMAIN table))
                  ELSE getName(name)
    IN [table |-> [k \in DOMAIN table \cup {symbol} |->
                        IF k = symbol THEN id ELSE table[k]],
        symbol |-> symbol]

\* Func::Func: the wrapper of a new llvm::Function
Func(id) == [func |-> id, locals |-> << >>, added |-> 0]

\* what the last call did: for a builder operation, body is the
\* llvm::Function that received the instruction, table the llvm::Function
\* of the Func that received the Local, key the key it is stored under;
\* declared counts the llvm::Functions created and latest is the name
\* declared last. entry is the default of Func::Func's parameter entry,
\* the same in every call.
FuncRet(op, body, table, key, declared, latest) ==
    [op |-> op, body |-> body, table |-> table, key |-> key, declared |-> declared,
     latest |-> latest, entry |-> fret.entry]

\* functions[name] = Func(..., entry); parent = &functions.at(name)
Declare(op, name, entry) ==
    /\ fret.declared < MaxFuncs
    /\ LET id == fret.declared + 1 IN
        /\ functions' = [n \in DOMAIN functions \cup {name} |->
                            IF n = name THEN Func(id) ELSE functions[n]]
        /\ curParent' = name
        /\ insert' = IF entry THEN id ELSE insert
        /\ blocks' = IF entry THEN blocks \cup {id} ELSE blocks
        /\ fret' = FuncRet(op, 0, 0, << >>, id, name)
    /\ UNCHANGED <<localVars, tyVars, arrVars, opVars, castVars, rwVars>>

\* Eisdrache::declareFunction(type, name, Ty::Vec parameters): entry is left
\* to the default of Func::Func
declareFunctionVec(name) ==
    /\ name \in FuncNames
    /\ Declare("declareFunction", name, fret.entry)

\* Eisdrache::declareFunction(type, name, Ty::Map parameters, entry)
declareFunction(name, entry) ==
    /\ name \in FuncNames
    /\ Declare("declareFunction", name, entry)

\* Struct::createMemberFunc(type, name, args)
createMemberFunc(name) ==
    /\ name \in MemberNames
    /\ Declare("createMemberFunc", name, TRUE)

\* Eisdrache::createBlock(name, insert): a block of the current function
createBlock(ins) ==
    /\ curParent # "none"
    /\ blocks' = blocks \cup {functions[curParent].func}
    /\ insert' = IF ins THEN functions[curParent].func ELSE insert
    /\ fret' = FuncRet("createBlock", 0, 0, << >>, fret.declared, fret.latest)
    /\ UNCHANGED <<functions, curParent>>
    /\ UNCHANGED <<localVars, tyVars, arrVars, opVars, castVars, rwVars>>

\* Eisdrache::setBlock(block), block being a block of llvm::Function b
setBlock(b) ==
    /\ b \in blocks
    /\ insert' = b
    /\ fret' = FuncRet("setBlock", 0, 0, << >>, fret.declared, fret.latest)
    /\ UNCHANGED <<functions, curParent, blocks>>
    /\ UNCHANGED <<localVars, tyVars, arrVars, opVars, castVars, rwVars>>

\* the calls of addLocal on the Funcs of the table
RECURSIVE AddedIn(_)
AddedIn(names) ==
    IF names = {} THEN 0
    ELSE LET n == CHOOSE n \in names : TRUE IN
         functions[n].added + AddedIn(names \ {n})

\* Eisdrache::declareLocal(type, name, ...), a builder operation: the alloca
\* goes into the block the builder inserts into, the Local into the table
\* of the current function
declareLocal(name) ==
    /\ curParent # "none" /\ insert # 0
    /\ AddedIn(DOMAIN functions) < MaxAdds
    /\ LET F == functions[curParent]
           r == addLocal(F.locals, name, F.added + 1)
       IN /\ functions' = [functions EXCEPT ![curParent] =
                              [F EXCEPT !.locals = r.table, !.added = F.added + 1]]
          /\ fret' = FuncRet("declareLocal", insert, F.func, r.symbol, fret.declared,
                             fret.latest)
    /\ UNCHANGED <<curParent, insert, blocks>>
    /\ UNCHANGED <<localVars, tyVars, arrVars, opVars, castVars, rwVars>>

\* the builder as Eisdrache::Eisdrache leaves it. The default of entry is
\* declared in the header: both values are followed.
FuncInit ==
    /\ functions = << >> /\ curParent = "none" /\ insert = 0 /\ blocks = {}
    /\ fret \in {[op |-> "none", body |-> 0, table |-> 0, key |-> << >>, declared |-> 0,
                   latest |-> "none", entry |-> e] : e \in BOOLEAN}
    /\ call = [fn |-> "none", op |-> "none", lhs |-> << >>, rhs |-> << >>, to |-> << >>,
               index |-> 0, lfirst |-> TRUE, symbol |-> ""]
    /\ outcome = [done |-> FALSE, insts |-> << >>, exited |-> FALSE, ty |-> << >>, added |-> 0]
    /\ this = MkLocal(0, FALSE, Null, << >>) /\ mem = Prior /\ locals = << >>
    /\ emitted = << >> /\ given = Given(Null, << >>)
    /\ ret = Ret("none", 0, FALSE, Null) /\ fatal = FALSE
    /\ types = << >> /\ handed = {} /\ tyRet = << >>
    /\ fields = <<0, 0, 0, 0>> /\ heap = << >> /\ elemBits = 0
    /\ ext = << >> /\ aret = Called("none", 0, 0) /\ made = NotMade /\ ub = FALSE
    /\ CastIdle /\ RwIdle

NextFunc ==
    \/ \E name \in FuncNames : declareFunctionVec(name)
    \/ \E name \in FuncNames, entry \in BOOLEAN : declareFunction(name, entry)
    \/ \E name \in MemberNames : createMemberFunc(name)
    \/ \E ins \in BOOLEAN : createBlock(ins)
    \/ \E b \in blocks : setBlock(b)
    \/ \E name \in LocalNames : declareLocal(name)

SpecFunc == FuncInit /\ [][NextFunc]_vars

\* C25: Func::addLocal never loses a Local: every Local added to a Func is
\* in its table under a key of its own, so the table has as many entries as
\* addLocal was called on the Func.
C25_NoLocalLost ==
    \A n \in DOMAIN functions :
        LET F == functions[n] IN
        /\ Cardinality(DOMAIN F.locals) = F.added
        /\ {F.locals[k] : k \in DOMAIN F.locals} = 1..F.added

\* C26: after any sequence of declareFunction, createMemberFunc, createBlock,
\* setBlock and builder operations the current function is the one declared
\* last, and the function whose body received the instruction of a builder
\* operation is the one whose table received its Local.
C26_OneCurrentFunction ==
    /\ curParent = fret.latest
    /\ fret.op = "declareLocal" => fret.body = fret.table

(***************************************************************************)
(* THE EARLIER FACADE (src/src/rewrite.cpp): LOCALS WITH AN INITIAL VALUE  *)
(*                                                                         *)
(* A Local is its stack slot: slot i is the i-th alloca declared. stack[i] *)
(* is what the slot holds (val) and whether loadLocal has loaded it yet    *)
(* (loaded).                                                               *)
(***************************************************************************)

\* the stack slots declared in one run
MaxSlots == 2

\* what a slot holds before any store, the initial values given to
\* declareLocal, and the values stored by the caller through the builder
NoValue    == 0
InitValues == {1, 2}
Direct     == {3}

RwInst(op, val) == [op |-> op, val |-> val]
RwRet(op, slot, insts, read) == [op |-> op, slot |-> slot, insts |-> insts, read |-> read]

\* rewrite.cpp, Eisdrache::declareLocal(type, name, value)
rwDeclareLocal(value) ==
    /\ Len(stack) < MaxSlots
    /\ LET alloca == Len(stack) + 1 IN
        /\ futures' = [a \in DOMAIN futures \cup {alloca} |->
                          IF a = alloca THEN value ELSE futures[a]]
        /\ stack' = Append(stack, [val |-> NoValue, loaded |-> FALSE])
        /\ rwret' = RwRet("declareLocal", alloca, <<RwInst("alloca", NoValue)>>, NoValue)
    /\ UNCHANGED <<localVars, tyVars, arrVars, opVars, castVars, funcVars>>

\* rewrite.cpp, Eisdrache::loadLocal(local, name)
loadLocal(local) ==
    /\ local \in DOMAIN stack
    /\ LET pending == local \in DOMAIN futures
           held == IF pending THEN futures[local] ELSE stack[local].val
       IN /\ stack' = [stack EXCEPT ![local] = [val |-> held, loaded |-> TRUE]]
          /\ rwret' = RwRet("loadLocal", local,
                            (IF pending THEN <<RwInst("store", futures[local])>> ELSE << >>)
                                \o <<RwInst("load", held)>>,
                            held)
    /\ UNCHANGED futures
    /\ UNCHANGED <<localVars, tyVars, arrVars, opVars, castVars, funcVars>>

\* a store of the caller into the slot, built with getBuilder()
storeDirect(local, value) ==
    /\ local \in DOMAIN stack
    /\ stack' = [stack EXCEPT ![local].val = value]
    /\ rwret' = RwRet("store", local, <<RwInst("store", value)>>, NoValue)
    /\ UNCHANGED futures
    /\ UNCHANGED <<localVars, tyVars, arrVars, opVars, castVars, funcVars>>

RwInit ==
    /\ RwIdle
    /\ call = [fn |-> "none", op |-> "none", lhs |-> << >>, rhs |-> << >>, to |-> << >>,
               index |-> 0, lfirst |-> TRUE, symbol |-> ""]
    /\ outcome = [done |-> FALSE, insts |-> << >>, exited |-> FALSE, ty |-> << >>, added |-> 0]
    /\ this = MkLocal(0, FALSE, Null, << >>) /\ mem = Prior /\ locals = << >>
    /\ emitted = << >> /\ given = Given(Null, << >>)
    /\ ret = Ret("none", 0, FALSE, Null) /\ fatal = FALSE
    /\ types = << >> /\ handed = {} /\ tyRet = << >>
    /\ fields = <<0, 0, 0, 0>> /\ heap = << >> /\ elemBits = 0
    /\ ext = << >> /\ aret = Called("none", 0, 0) /\ made = NotMade /\ ub = FALSE
    /\ CastIdle /\ FuncIdle

NextRw ==
    \/ \E value \in InitValues : rwDeclareLocal(value)
    \/ \E local \in 1..MaxSlots : loadLocal(local)
    \/ \E local \in 1..MaxSlots, value \in Direct : storeDirect(local, value)

SpecRw == RwInit /\ [][NextRw]_vars

\* C30: the initial value given to declareLocal(type, name, value) is stored
\* at most once: the first loadLocal of the local emits the store and then
\* the load, every later loadLocal only a load, which reads what the slot
\* held - a value stored into the local in between is not overwritten.
C30_InitialValueStoredOnce ==
    [][\A local \in 1..MaxSlots :
         loadLocal(local)
            => IF stack[local].loaded
               THEN /\ rwret'.insts = <<RwInst("load", stack[local].val)>>
                    /\ rwret'.read = stack[local].val
               ELSE /\ rwret'.insts = <<RwInst("store", futures[local]),
                                       RwInst("load", futures[local])>>
                    /\ rwret'.read = futures[local]]_vars

====
